---- MODULE Spec2Model ----
(***************************************************************************)
(* Retrieval-and-evaluation pipeline of the RAG document system:           *)
(* DocumentProcessor.createChunks, VectorStore, RAGPipeline,               *)
(* EvaluationMetrics and the wiring of server/index.js.                    *)
(*                                                                         *)
(* Strings are sequences of runs [c |-> char code, n |-> repeat count]:    *)
(* a run-length encoding, so that a 500-character sentence is one run.     *)
(* Whitespace and '.' always appear as runs of length 1.                   *)
(* JavaScript numbers that are fractions are kept in fixed point, in units *)
(* of 1/Scale, rounded down.                                               *)
(***************************************************************************)
EXTENDS Integers, Sequences, FiniteSets, TLC

(***************************************************************************)
(* Strings                                                                 *)
(***************************************************************************)
Ch(c) == [c |-> c, n |-> 1]
Run(c, n) == [c |-> c, n |-> n]
Space == Ch(32)
Newline == Ch(10)
Dot == Ch(46)
DotSpace == <<Dot, Space>>
BlankLine == <<Newline, Newline>>

\* String.prototype.length
RECURSIVE RunsLen(_, _, _)
RunsLen(s, lo, hi) ==
  IF lo > hi THEN 0
  ELSE IF lo = hi THEN s[lo].n
  ELSE RunsLen(s, lo, (lo + hi) \div 2) + RunsLen(s, (lo + hi) \div 2 + 1, hi)

StrLen(s) == RunsLen(s, 1, Len(s))

IsWhitespace(t) == t.c \in {32, 10, 9, 13}

\* String.prototype.trim
RECURSIVE TrimStart(_)
TrimStart(s) ==
  IF s # <<>> /\ IsWhitespace(Head(s)) THEN TrimStart(Tail(s)) ELSE s

RECURSIVE TrimEnd(_)
TrimEnd(s) ==
  IF s # <<>> /\ IsWhitespace(s[Len(s)])
  THEN TrimEnd(SubSeq(s, 1, Len(s) - 1))
  ELSE s

trim(s) == TrimEnd(TrimStart(s))

\* The least element of a non-empty set of positions.
Least(positions) == CHOOSE k \in positions : \A m \in positions : k <= m

\* String.prototype.split(sep) for a two-character separator: the pieces
\* between the leftmost non-overlapping occurrences, empty pieces included.
\* The scan goes from i to the next occurrence, or to the end.
RECURSIVE SplitFrom(_, _, _, _)
SplitFrom(s, sep, i, start) ==
  IF i > Len(s) THEN << SubSeq(s, start, Len(s)) >>
  ELSE IF i < Len(s) /\ s[i] = sep[1] /\ s[i + 1] = sep[2]
       THEN << SubSeq(s, start, i - 1) >> \o SplitFrom(s, sep, i + 2, i + 2)
       ELSE SplitFrom(s, sep,
                      Least({k \in (i + 1)..(Len(s) - 1) :
                               s[k] = sep[1] /\ s[k + 1] = sep[2]}
                            \cup {Len(s) + 1}),
                      start)

split(s, sep) == SplitFrom(s, sep, 1, 1)

\* Array.prototype.join
RECURSIVE join(_, _)
join(parts, sep) ==
  IF parts = <<>> THEN <<>>
  ELSE IF Len(parts) = 1 THEN parts[1]
  ELSE parts[1] \o sep \o join(Tail(parts), sep)

NonBlank(s) == StrLen(trim(s)) > 0

\* String.prototype.toLowerCase
toLowerCase(s) ==
  [i \in 1..Len(s) |->
     IF s[i].c >= 65 /\ s[i].c <= 90 THEN Run(s[i].c + 32, s[i].n) ELSE s[i]]

\* String.prototype.split(/\s+/): the pieces between maximal whitespace runs.
RECURSIVE SkipWhitespace(_, _)
SkipWhitespace(s, i) ==
  IF i <= Len(s) /\ IsWhitespace(s[i]) THEN SkipWhitespace(s, i + 1) ELSE i

RECURSIVE SplitWordsFrom(_, _, _)
SplitWordsFrom(s, i, start) ==
  IF i > Len(s) THEN << SubSeq(s, start, Len(s)) >>
  ELSE IF IsWhitespace(s[i])
       THEN LET j == SkipWhitespace(s, i)
            IN << SubSeq(s, start, i - 1) >> \o SplitWordsFrom(s, j, j)
       ELSE SplitWordsFrom(s,
                           Least({k \in (i + 1)..Len(s) : IsWhitespace(s[k])}
                                 \cup {Len(s) + 1}),
                           start)

splitWords(s) == SplitWordsFrom(s, 1, 1)

\* Array.prototype.includes
includes(arr, x) == \E i \in 1..Len(arr) : arr[i] = x

\* A string literal given by its character codes.
Str(codes) == [i \in 1..Len(codes) |-> Ch(codes[i])]

(***************************************************************************)
(* Numbers: fractions are integers in units of 1/Scale, rounded down; a    *)
(* division by zero yields NaN as in JavaScript (0/0).                     *)
(***************************************************************************)
Scale == 1000
NaN == "NaN"

\* count / count
Ratio(a, b) == IF b = 0 THEN NaN ELSE (a * Scale) \div b
\* number / count
Mean(sum, n) == IF n = 0 THEN NaN ELSE sum \div n

\* Array.prototype.reduce((sum, x) => sum + x, 0)
Sum(nums) ==
  LET sum[i \in 0..Len(nums)] == IF i = 0 THEN 0 ELSE sum[i - 1] + nums[i]
  IN sum[Len(nums)]

\* Array.prototype.map(x => x[field])
Pluck(seq, field) == [i \in 1..Len(seq) |-> seq[i][field]]

\* Array.prototype.slice(-n)
LastN(seq, n) ==
  IF Len(seq) <= n THEN seq ELSE SubSeq(seq, Len(seq) - n + 1, Len(seq))

(***************************************************************************)
(* EvaluationMetrics                                                       *)
(***************************************************************************)
OverviewWindow == 100
ReportWindow == 50

calculateFaithfulness(answer, context) ==
  IF StrLen(context) = 0 THEN 0
  ELSE LET answerWords == IF StrLen(answer.text) > 0
                          THEN splitWords(toLowerCase(answer.text)) ELSE <<>>
           contextWords == splitWords(toLowerCase(context))
           groundedWords ==
             SelectSeq(answerWords,
                       LAMBDA word : includes(contextWords, word)
                                     /\ StrLen(word) > 3)
       IN IF Len(answerWords) > 0
          THEN Ratio(Len(groundedWords), Len(answerWords)) ELSE 0

calculateAnswerRelevancySum(answer, sources) ==
  IF Len(sources) = 0 THEN 0
  ELSE LET avgSourceSimilarity ==
             Mean(Sum(Pluck(sources, "similarity")),
                  Len(sources))
           answerConfidence ==
             IF answer.confidence = 0 THEN Scale \div 2 ELSE answer.confidence
       IN avgSourceSimilarity + answerConfidence

calculateAnswerRelevancy(answer, sources) ==
  IF Len(sources) = 0 THEN 0
  ELSE LET avgSourceSimilarity ==
             Mean(Sum(Pluck(sources, "similarity")),
                  Len(sources))
           answerConfidence ==
             IF answer.confidence = 0 THEN Scale \div 2 ELSE answer.confidence
       IN (avgSourceSimilarity + answerConfidence) \div 2

calculateContextRecall(sources, context) ==
  IF Len(sources) = 0 THEN 0
  ELSE LET totalSources == Len(sources)
           highQualitySources ==
             Len(SelectSeq(sources,
                           LAMBDA source : source.similarity * 10 > 7 * Scale))
       IN IF totalSources > 0 THEN Ratio(highQualitySources, totalSources) ELSE 0

\* sources.forEach((source, index) => ...): st = [cumulativePrecision, relevantFound]
RECURSIVE PrecisionLoop(_, _, _)
PrecisionLoop(sources, index, st) ==
  IF index >= Len(sources) THEN st
  ELSE PrecisionLoop(sources, index + 1,
         IF sources[index + 1].similarity * 10 > 5 * Scale
         THEN [relevantFound |-> st.relevantFound + 1,
               cumulativePrecision |->
                 st.cumulativePrecision
                 + Ratio(st.relevantFound + 1, index + 1)]
         ELSE st)

calculateContextPrecision(sources) ==
  IF Len(sources) = 0 THEN 0
  ELSE LET st == PrecisionLoop(sources, 0,
                   [relevantFound |-> 0, cumulativePrecision |-> 0])
           relevantSources ==
             Len(SelectSeq(sources, LAMBDA s : s.similarity * 10 > 5 * Scale))
       IN IF relevantSources > 0
          THEN Mean(st.cumulativePrecision, relevantSources) ELSE 0

\* The metrics object of calculateMetrics (timestamp: new Date() is left out:
\* nothing reads it).
MetricsOf(response, latency) ==
  [latency |-> latency,
   relevanceScore |-> response.relevanceScore,
   sourcesCount |-> Len(response.sources),
   contextLength |-> StrLen(response.context),
   success |-> Len(response.sources) > 0,
   faithfulness |-> calculateFaithfulness(response.answer, response.context),
   answerRelevancy |-> calculateAnswerRelevancy(response.answer, response.sources),
   contextRecall |-> calculateContextRecall(response.sources, response.context),
   contextPrecision |-> calculateContextPrecision(response.sources)]

\* this.queryHistory.slice(-100)
RecentForOverview(history) == LastN(history, OverviewWindow)

\* updatePerformanceMetrics: the new [queryHistory, performanceMetrics]
updatePerformanceMetricsNoCount(history, perf, metrics) ==
  LET pushed == Append(history, metrics)
      recentQueries == RecentForOverview(pushed)
  IN [queryHistory |-> pushed,
      performanceMetrics |->
        [totalQueries |-> perf.totalQueries,
         avgLatency |-> Mean(Sum(Pluck(recentQueries, "latency")),
                             Len(recentQueries)),
         avgRelevanceScore |->
           Mean(Sum(Pluck(recentQueries, "relevanceScore")),
                Len(recentQueries)),
         successRate |-> Ratio(Len(SelectSeq(recentQueries, LAMBDA q : q.success)),
                               Len(recentQueries))]]

updatePerformanceMetrics(history, perf, metrics) ==
  LET pushed == Append(history, metrics)
      recentQueries == RecentForOverview(pushed)
  IN [queryHistory |-> pushed,
      performanceMetrics |->
        [totalQueries |-> perf.totalQueries + 1,
         avgLatency |-> Mean(Sum(Pluck(recentQueries, "latency")),
                             Len(recentQueries)),
         avgRelevanceScore |->
           Mean(Sum(Pluck(recentQueries, "relevanceScore")),
                Len(recentQueries)),
         successRate |-> Ratio(Len(SelectSeq(recentQueries, LAMBDA q : q.success)),
                               Len(recentQueries))]]

getLatencyDistribution(queries) ==
  [fast |-> Len(SelectSeq(queries, LAMBDA q : q.latency < 1000)),
   medium |-> Len(SelectSeq(queries,
                LAMBDA q : ~(q.latency < 1000) /\ q.latency < 3000)),
   slow |-> Len(SelectSeq(queries,
              LAMBDA q : ~(q.latency < 1000) /\ ~(q.latency < 3000)))]

\* The records carry no intent field, so every one counts as 'general'.
getQueryTypeDistribution(queries) ==
  IF Len(queries) = 0 THEN << >> ELSE [general |-> Len(queries)]

\* this.queryHistory.slice(-50)
RecentForReportWide(history) == LastN(history, OverviewWindow)

RecentForReport(history) == LastN(history, ReportWindow)

getPerformanceReport(history, perf) ==
  LET recent == RecentForReport(history)
  IN [overview |-> perf,
      detailedMetrics |->
        [avgFaithfulness |->
           Mean(Sum(Pluck(recent, "faithfulness")), Len(recent)),
         avgAnswerRelevancy |->
           Mean(Sum(Pluck(recent, "answerRelevancy")), Len(recent)),
         avgContextRecall |->
           Mean(Sum(Pluck(recent, "contextRecall")), Len(recent)),
         avgContextPrecision |->
           Mean(Sum(Pluck(recent, "contextPrecision")), Len(recent))],
      latencyDistribution |-> getLatencyDistribution(recent),
      queryTypes |-> getQueryTypeDistribution(recent)]

(***************************************************************************)
(* VectorStore                                                             *)
(*                                                                         *)
(* A Map is the sequence of its entries [key, value] in insertion order.   *)
(* An embedding is [length, at]: the array length and its non-zero         *)
(* components by 0-based index. simulateEmbedding yields the per-index     *)
(* word counts; the positive factor 1/(sqrt(words.length) * magnitude) it  *)
(* applies to every component is left out, cosineSimilarity being          *)
(* unchanged by it.                                                        *)
(***************************************************************************)
embeddingDimensions == 384

\* Map.prototype.set: replace the value in place, or append a new entry.
MapSet(map, key, value) ==
  IF \E i \in 1..Len(map) : map[i].key = key
  THEN [i \in 1..Len(map) |->
          IF map[i].key = key THEN [key |-> key, value |-> value] ELSE map[i]]
  ELSE Append(map, [key |-> key, value |-> value])

MapHas(map, key) == \E i \in 1..Len(map) : map[i].key = key
MapGet(map, key) == map[CHOOSE i \in 1..Len(map) : map[i].key = key].value

\* Number.prototype.toString for a non-negative integer.
RECURSIVE Decimal(_)
Decimal(n) ==
  IF n < 10 THEN <<Ch(48 + n)>> ELSE Decimal(n \div 10) \o <<Ch(48 + (n % 10))>>

\* documentId.toString(): an id is [type |-> "string", value |-> _] or
\* [type |-> "number", number |-> _].
toString(x) == IF x.type = "number" THEN Decimal(x.number) ELSE x.value

\* hash = ((hash << 5) - hash + charCode) & 0xffffffff, as a signed 32-bit
\* integer, computed on 16-bit halves.
HashStep(hash, code) ==
  LET lo == hash % 65536
      hi == (hash \div 65536) % 65536
      t == 31 * lo + code
      newLo == t % 65536
      newHi == (31 * hi + (t \div 65536)) % 65536
  IN (IF newHi >= 32768 THEN newHi - 65536 ELSE newHi) * 65536 + newLo

\* for (let j = 0; j < word.length; j++): run i of the word, k characters in.
RECURSIVE HashWord(_, _, _, _)
HashWord(word, i, k, hash) ==
  IF i > Len(word) THEN hash
  ELSE IF k >= word[i].n THEN HashWord(word, i + 1, 0, hash)
  ELSE HashWord(word, i, k + 1, HashStep(hash, word[i].c))

\* Math.abs(hash) % this.embeddingDimensions
WordIndex(word) ==
  LET hash == HashWord(word, 1, 0, 0)
  IN IF hash >= 0 THEN hash % embeddingDimensions
     ELSE (((-(hash + 1)) % embeddingDimensions) + 1) % embeddingDimensions

simulateEmbedding(text) ==
  LET words == splitWords(toLowerCase(text))
      indexOf == [i \in 1..Len(words) |-> WordIndex(words[i])]
      touched == {indexOf[i] : i \in 1..Len(words)}
  IN [length |-> embeddingDimensions,
      at |-> [b \in touched |->
                Cardinality({i \in 1..Len(words) : indexOf[i] = b})]]

generateEmbeddings(chunks) ==
  [i \in 1..Len(chunks) |-> simulateEmbedding(chunks[i].content)]

\* The sum of the values of a function with a finite domain.
RECURSIVE SumValues(_)
SumValues(f) ==
  IF DOMAIN f = {} THEN 0
  ELSE LET i == CHOOSE j \in DOMAIN f : TRUE
       IN f[i] + SumValues([j \in DOMAIN f \ {i} |-> f[j]])

\* The largest k in lo..hi with k * k * m <= t.
RECURSIVE FloorRoot(_, _, _, _)
FloorRoot(lo, hi, m, t) ==
  IF lo >= hi THEN lo
  ELSE LET mid == (lo + hi + 1) \div 2
       IN IF mid * mid * m <= t THEN FloorRoot(mid, hi, m, t)
          ELSE FloorRoot(lo, mid - 1, m, t)

cosineSimilarity(vectorA, vectorB) ==
  IF vectorA.length # vectorB.length THEN 0
  ELSE LET common == DOMAIN vectorA.at \cap DOMAIN vectorB.at
           dotProduct == SumValues([i \in common |->
                                      vectorA.at[i] * vectorB.at[i]])
           magnitudeA2 == SumValues([i \in DOMAIN vectorA.at |->
                                       vectorA.at[i] * vectorA.at[i]])
           magnitudeB2 == SumValues([i \in DOMAIN vectorB.at |->
                                       vectorB.at[i] * vectorB.at[i]])
           magnitude == FloorRoot(0, Scale,
                                  magnitudeA2 * magnitudeB2,
                                  Scale * Scale * dotProduct * dotProduct)
       IN IF magnitudeA2 # 0 /\ magnitudeB2 # 0
          THEN (IF dotProduct < 0 THEN -magnitude ELSE magnitude)
          ELSE 0

\* `${documentId}_${chunks[i].id}`
ChunkKeyWithoutDocument(documentId, chunk) == Decimal(chunk.id)

ChunkKey(documentId, chunk) ==
  toString(documentId) \o <<Ch(95)>> \o Decimal(chunk.id)

\* The loop of storeDocument stopping after its first record.
StoreFirstChunk(vectors, documentId, chunks, embeddings, i) ==
  IF i > Len(chunks) THEN vectors
  ELSE MapSet(vectors, ChunkKey(documentId, chunks[i]),
              [id |-> ChunkKey(documentId, chunks[i]),
               documentId |-> toString(documentId),
               chunkId |-> chunks[i].id,
               embedding |-> embeddings[i],
               content |-> chunks[i].content,
               metadata |-> chunks[i].metadata,
               type |-> chunks[i].type])

\* for (let i = 0; i < chunks.length; i++) this.vectors.set(chunkId, {...})
RECURSIVE StoreChunks(_, _, _, _, _)
StoreChunks(vectors, documentId, chunks, embeddings, i) ==
  IF i > Len(chunks) THEN vectors
  ELSE StoreChunks(
         MapSet(vectors, ChunkKey(documentId, chunks[i]),
                [id |-> ChunkKey(documentId, chunks[i]),
                 documentId |-> toString(documentId),
                 chunkId |-> chunks[i].id,
                 embedding |-> embeddings[i],
                 content |-> chunks[i].content,
                 metadata |-> chunks[i].metadata,
                 type |-> chunks[i].type]),
         documentId, chunks, embeddings, i + 1)

\* storeDocument: the store after the call. Nothing of the store is read or
\* written before "await this.generateEmbeddings(chunks)", and everything
\* after it runs without another suspension (storedAt: new Date() is left
\* out: nothing reads it).
storeDocument(store, documentId, processingResult) ==
  LET chunks == processingResult.chunks
      embeddings == generateEmbeddings(chunks)
  IN [documents |->
        MapSet(store.documents, toString(documentId),
               [id |-> documentId, metadata |-> processingResult.metadata,
                chunksCount |-> Len(chunks)]),
      vectors |-> StoreChunks(store.vectors, documentId, chunks, embeddings, 1)]

\* Array.prototype.sort((a, b) => b.similarity - a.similarity), which is
\* stable: x goes behind every element that does not sort after it.
SortedInsertBeforeTies(sorted, x) ==
  LET ahead == Cardinality({i \in 1..Len(sorted) :
                              sorted[i].similarity > x.similarity})
  IN SubSeq(sorted, 1, ahead) \o <<x>> \o SubSeq(sorted, ahead + 1, Len(sorted))

SortedInsert(sorted, x) ==
  LET ahead == Cardinality({i \in 1..Len(sorted) :
                              sorted[i].similarity >= x.similarity})
  IN SubSeq(sorted, 1, ahead) \o <<x>> \o SubSeq(sorted, ahead + 1, Len(sorted))

RECURSIVE SortBySimilarity(_, _, _)
SortBySimilarity(results, i, sorted) ==
  IF i > Len(results) THEN sorted
  ELSE SortBySimilarity(results, i + 1, SortedInsert(sorted, results[i]))

\* Array.prototype.slice(0, limit) for limit >= 0
Take(seq, limit) == IF Len(seq) <= limit THEN seq ELSE SubSeq(seq, 1, limit)

\* The records "for (const [chunkId, vectorData] of this.vectors)" does not
\* skip; documentIds is [given |-> FALSE] (null) or [given |-> TRUE, ids |-> _].
Scanned(vectors, documentIds) ==
  SelectSeq(vectors,
            LAMBDA e : ~(documentIds.given
                         /\ ~includes(documentIds.ids, e.value.documentId)))

\* {...vectorData, similarity}
Scored(vectorData, similarity) ==
  [id |-> vectorData.id, documentId |-> vectorData.documentId,
   chunkId |-> vectorData.chunkId, embedding |-> vectorData.embedding,
   content |-> vectorData.content, metadata |-> vectorData.metadata,
   type |-> vectorData.type, similarity |-> similarity]

search(store, queryEmbedding, documentIds, limit) ==
  LET scanned == Scanned(store.vectors, documentIds)
      results == [i \in 1..Len(scanned) |->
                    Scored(scanned[i].value,
                           cosineSimilarity(queryEmbedding,
                                            scanned[i].value.embedding))]
  IN Take(SortBySimilarity(results, 1, <<>>), limit)

(***************************************************************************)
(* DocumentProcessor.createChunks                                          *)
(***************************************************************************)
ParagraphLimit == 500
SentencesPerChunk == 3

ParagraphChunk(id, content, sourceType) ==
  [id |-> id, content |-> content, type |-> "paragraph",
   metadata |-> [sourceType |-> sourceType, chunkType |-> "paragraph"]]

VisualChunk(id, content, sourceType, metadata) ==
  [id |-> id, content |-> content, type |-> "visual_context",
   metadata |-> [sourceType |-> sourceType, chunkType |-> "visual_context",
                 visualElements |-> metadata.tables,
                 charts |-> metadata.charts]]

\* chunks.push({id: chunkId++, content: currentChunk.trim(), ...})
PushParagraphSameId(st, content, sourceType) ==
  [st EXCEPT !.chunks = Append(st.chunks,
                               ParagraphChunk(st.chunkId, content, sourceType))]

PushParagraph(st, content, sourceType) ==
  [st EXCEPT !.chunks = Append(st.chunks,
                               ParagraphChunk(st.chunkId, content, sourceType)),
             !.chunkId = st.chunkId + 1]

\* One iteration of "for (const sentence of sentences)".
SentenceStepDropsOversize(st, sentence, sourceType) ==
  IF StrLen(st.currentChunk \o sentence) > ParagraphLimit
  THEN [(IF st.currentChunk # <<>>
         THEN PushParagraph(st, trim(st.currentChunk), sourceType)
         ELSE st) EXCEPT !.currentChunk = <<>>]
  ELSE [st EXCEPT !.currentChunk =
          (IF st.currentChunk # <<>> THEN st.currentChunk \o DotSpace ELSE <<>>)
          \o sentence]

SentenceStep(st, sentence, sourceType) ==
  IF StrLen(st.currentChunk \o sentence) > ParagraphLimit
  THEN [(IF st.currentChunk # <<>>
         THEN PushParagraph(st, trim(st.currentChunk), sourceType)
         ELSE st) EXCEPT !.currentChunk = sentence]
  ELSE [st EXCEPT !.currentChunk =
          (IF st.currentChunk # <<>> THEN st.currentChunk \o DotSpace ELSE <<>>)
          \o sentence]

RECURSIVE SentenceLoop(_, _, _, _)
SentenceLoop(sentences, k, st, sourceType) ==
  IF k > Len(sentences) THEN st
  ELSE SentenceLoop(sentences, k + 1,
                    SentenceStep(st, sentences[k], sourceType), sourceType)

\* The body of "for (let i = 0; i < paragraphs.length; i++)".
ParagraphStep(st, paragraph, sourceType) ==
  IF StrLen(paragraph) > ParagraphLimit
  THEN LET after == SentenceLoop(split(paragraph, DotSpace), 1,
                                 [st EXCEPT !.currentChunk = <<>>], sourceType)
       IN IF after.currentChunk # <<>>
          THEN PushParagraph(after, trim(after.currentChunk), sourceType)
          ELSE after
  ELSE PushParagraph(st, paragraph, sourceType)

RECURSIVE ParagraphLoop(_, _, _, _)
ParagraphLoop(paragraphs, i, st, sourceType) ==
  IF i > Len(paragraphs) THEN st
  ELSE ParagraphLoop(paragraphs, i + 1,
                     ParagraphStep(st, paragraphs[i], sourceType), sourceType)

RECURSIVE WindowLoopWholeOnly(_, _, _, _, _)
WindowLoopWholeOnly(sentences, i, st, sourceType, metadata) ==
  IF i + SentencesPerChunk - 1 > Len(sentences) THEN st
  ELSE WindowLoopWholeOnly(
         sentences, i + SentencesPerChunk,
         [st EXCEPT
            !.chunks = Append(st.chunks,
                         VisualChunk(st.chunkId,
                                     join(SubSeq(sentences, i,
                                                 i + SentencesPerChunk - 1),
                                          DotSpace),
                                     sourceType, metadata)),
            !.chunkId = st.chunkId + 1],
         sourceType, metadata)

\* "for (let i = 0; i < sentences.length; i += 3)"
RECURSIVE WindowLoop(_, _, _, _, _)
WindowLoop(sentences, i, st, sourceType, metadata) ==
  IF i > Len(sentences) THEN st
  ELSE LET last == IF i + SentencesPerChunk - 1 < Len(sentences)
                   THEN i + SentencesPerChunk - 1 ELSE Len(sentences)
           chunkSentences == SubSeq(sentences, i, last)
       IN WindowLoop(sentences, i + SentencesPerChunk,
                     [st EXCEPT
                        !.chunks = Append(st.chunks,
                                     VisualChunk(st.chunkId,
                                                 join(chunkSentences, DotSpace),
                                                 sourceType, metadata)),
                        !.chunkId = st.chunkId + 1],
                     sourceType, metadata)

createChunks(text, sourceType, metadata) ==
  LET st0 == [chunks |-> <<>>, chunkId |-> 1, currentChunk |-> <<>>]
  IN IF sourceType = "pdf"
     THEN ParagraphLoop(SelectSeq(split(text, BlankLine), NonBlank), 1, st0,
                        sourceType).chunks
     ELSE IF sourceType = "image"
     THEN WindowLoop(SelectSeq(split(text, DotSpace), NonBlank), 1, st0,
                     sourceType, metadata).chunks
     ELSE <<>>

(***************************************************************************)
(* VectorStore.searchWithQuery                                             *)
(*                                                                         *)
(* filters is a record holding the properties the caller gave, among       *)
(* contentType and minSimilarity; {} is the empty record.                  *)
(***************************************************************************)
\* search(queryEmbedding, documentIds = null, limit = 10)
DefaultLimit == 10

NoFilters == [name \in {} |-> 0]

\* if (filters.contentType) filteredResults = filteredResults.filter(...)
FilterByContentType(results, filters) ==
  IF "contentType" \in DOMAIN filters /\ filters.contentType # ""
  THEN SelectSeq(results, LAMBDA r : r.type = filters.contentType)
  ELSE results

\* searchWithQuery without its similarity filter.
KeepAnySimilarity(results, filters) == results

\* if (filters.minSimilarity) filteredResults = filteredResults.filter(...)
FilterByMinSimilarity(results, filters) ==
  IF "minSimilarity" \in DOMAIN filters /\ filters.minSimilarity # 0
  THEN SelectSeq(results, LAMBDA r : r.similarity >= filters.minSimilarity)
  ELSE results

\* filteredResults.map(result => ({content, similarity, documentId, ...}))
ChunkResults(filteredResults) ==
  [i \in 1..Len(filteredResults) |->
     [content |-> filteredResults[i].content,
      similarity |-> filteredResults[i].similarity,
      documentId |-> filteredResults[i].documentId,
      chunkId |-> filteredResults[i].chunkId,
      metadata |-> filteredResults[i].metadata,
      type |-> filteredResults[i].type]]

searchWithQuery(store, query, documentIds, filters) ==
  ChunkResults(
    FilterByMinSimilarity(
      FilterByContentType(
        search(store, simulateEmbedding(query), documentIds, DefaultLimit),
        filters),
      filters))

(***************************************************************************)
(* RAGPipeline                                                             *)
(***************************************************************************)
maxContextLength == 4000
topK == 5
\* minSimilarity: 0.3
DefaultMinSimilarity == (3 * Scale) \div 10

\* The characters of a string, one code each.
RECURSIVE CharsIn(_, _, _)
CharsIn(s, lo, hi) ==
  IF lo > hi THEN <<>>
  ELSE IF lo = hi THEN [k \in 1..s[lo].n |-> s[lo].c]
  ELSE CharsIn(s, lo, (lo + hi) \div 2) \o CharsIn(s, (lo + hi) \div 2 + 1, hi)

Chars(s) == CharsIn(s, 1, Len(s))

\* String.prototype.includes(pattern); RegExp.prototype.test for a pattern
\* of literal characters.
Contains(s, pattern) ==
  LET a == Chars(s)
      p == Chars(pattern)
  IN \E i \in 0..(Len(a) - Len(p)) : SubSeq(a, i + 1, i + Len(p)) = p

\* String.prototype.split(/[...]+/) for a class of characters: the pieces
\* between maximal runs of characters of the class.
RECURSIVE SkipClass(_, _, _)
SkipClass(s, codes, i) ==
  IF i <= Len(s) /\ s[i].c \in codes THEN SkipClass(s, codes, i + 1) ELSE i

RECURSIVE SplitClassFrom(_, _, _, _)
SplitClassFrom(s, codes, i, start) ==
  IF i > Len(s) THEN << SubSeq(s, start, Len(s)) >>
  ELSE IF s[i].c \in codes
       THEN LET j == SkipClass(s, codes, i)
            IN << SubSeq(s, start, i - 1) >> \o SplitClassFrom(s, codes, j, j)
       ELSE SplitClassFrom(s, codes,
                           Least({k \in (i + 1)..Len(s) : s[k].c \in codes}
                                 \cup {Len(s) + 1}),
                           start)

splitClass(s, codes) == SplitClassFrom(s, codes, 1, 1)

\* The intents of classifyIntent in the order of the object literal, each
\* with the alternatives of its pattern.
intents ==
  <<
    [intent |-> "factual",
     patterns |->
       <<Str(<<119, 104, 97, 116, 32, 105, 115>>),
         Str(<<100, 101, 102, 105, 110, 101>>),
         Str(<<101, 120, 112, 108, 97, 105, 110>>),
         Str(<<116, 101, 108, 108, 32, 109, 101, 32, 97, 98, 111,
                     117, 116>>)>>],
    [intent |-> "comparison",
     patterns |->
       <<Str(<<99, 111, 109, 112, 97, 114, 101>>),
         Str(<<118, 101, 114, 115, 117, 115>>),
         Str(<<118, 115>>),
         Str(<<100, 105, 102, 102, 101, 114, 101, 110, 99, 101, 32,
                     98, 101, 116, 119, 101, 101, 110>>)>>],
    [intent |-> "procedural",
     patterns |->
       <<Str(<<104, 111, 119, 32, 116, 111>>),
         Str(<<115, 116, 101, 112, 115>>),
         Str(<<112, 114, 111, 99, 101, 115, 115>>),
         Str(<<112, 114, 111, 99, 101, 100, 117, 114, 101>>)>>],
    [intent |-> "analytical",
     patterns |->
       <<Str(<<97, 110, 97, 108, 121, 122, 101>>),
         Str(<<97, 110, 97, 108, 121, 115, 105, 115>>),
         Str(<<105, 110, 115, 105, 103, 104, 116, 115>>),
         Str(<<116, 114, 101, 110, 100, 115>>)>>],
    [intent |-> "numerical",
     patterns |->
       <<Str(<<115, 116, 97, 116, 105, 115, 116, 105, 99, 115>>),
         Str(<<110, 117, 109, 98, 101, 114, 115>>),
         Str(<<100, 97, 116, 97>>),
         Str(<<109, 101, 116, 114, 105, 99, 115>>)>>],
    [intent |-> "visual",
     patterns |->
       <<Str(<<99, 104, 97, 114, 116>>),
         Str(<<103, 114, 97, 112, 104>>),
         Str(<<116, 97, 98, 108, 101>>),
         Str(<<105, 109, 97, 103, 101>>),
         Str(<<102, 105, 103, 117, 114, 101>>)>>]>>

\* pattern.test(query) with the i flag
IntentMatches(query, i) ==
  \E k \in 1..Len(intents[i].patterns) :
    Contains(toLowerCase(query), intents[i].patterns[k])

classifyLastIntent(query) ==
  LET matching == {i \in 1..Len(intents) : IntentMatches(query, i)}
  IN IF matching = {} THEN "general"
     ELSE intents[CHOOSE i \in matching : \A j \in matching : i >= j].intent

classifyIntent(query) ==
  LET matching == {i \in 1..Len(intents) : IntentMatches(query, i)}
  IN IF matching = {} THEN "general"
     ELSE intents[CHOOSE i \in matching : \A j \in matching : i <= j].intent

stopWords ==
  {Str(<<116, 104, 101>>),
   Str(<<105, 115>>),
   Str(<<97, 116>>),
   Str(<<119, 104, 105, 99, 104>>),
   Str(<<111, 110>>),
   Str(<<97>>),
   Str(<<97, 110>>),
   Str(<<97, 110, 100>>),
   Str(<<111, 114>>),
   Str(<<98, 117, 116>>)}

extractKeywords(query) ==
  Take(SelectSeq(splitWords(toLowerCase(query)),
                 LAMBDA word : StrLen(word) > 2 /\ word \notin stopWords),
       10)

synonyms ==
  <<[key |-> Str(<<100, 97, 116, 97>>),
     value |-> <<Str(<<105, 110, 102, 111, 114, 109, 97, 116, 105, 111,
                           110>>),
               Str(<<115, 116, 97, 116, 105, 115, 116, 105, 99, 115>>),
               Str(<<109, 101, 116, 114, 105, 99, 115>>)>>],
    [key |-> Str(<<97, 110, 97, 108, 121, 122, 101>>),
     value |-> <<Str(<<101, 120, 97, 109, 105, 110, 101>>),
               Str(<<115, 116, 117, 100, 121>>),
               Str(<<114, 101, 118, 105, 101, 119>>)>>],
    [key |-> Str(<<115, 104, 111, 119>>),
     value |-> <<Str(<<100, 105, 115, 112, 108, 97, 121>>),
               Str(<<112, 114, 101, 115, 101, 110, 116>>),
               Str(<<100, 101, 109, 111, 110, 115, 116, 114, 97, 116,
                           101>>)>>]>>

\* The keywords for which synonyms[keyword] is a property inherited from
\* Object.prototype: a truthy value without a join method.
InheritedKeys ==
  {Str(<<99, 111, 110, 115, 116, 114, 117, 99, 116, 111, 114>>),
   Str(<<95, 95, 112, 114, 111, 116, 111, 95, 95>>)}

\* expandQuery: "ok" with the expanded text, or the TypeError of
\* synonyms[keyword].join when the value is not an array.
RECURSIVE ExpandLoop(_, _, _)
ExpandLoop(keywords, i, expanded) ==
  IF i > Len(keywords) THEN [kind |-> "ok", text |-> expanded]
  ELSE IF MapHas(synonyms, keywords[i])
       THEN ExpandLoop(keywords, i + 1,
                       expanded \o <<Space>>
                       \o join(MapGet(synonyms, keywords[i]), <<Space>>))
       ELSE IF keywords[i] \in InheritedKeys THEN [kind |-> "TypeError"]
       ELSE ExpandLoop(keywords, i + 1, expanded)

expandQuery(query, keywords) == ExpandLoop(keywords, 1, query)

\* preprocessQuery (entities are left out: nothing reads them).
preprocessQuery(query) ==
  LET intent == classifyIntent(query)
      keywords == extractKeywords(query)
      expanded == expandQuery(query, keywords)
  IN IF expanded.kind = "TypeError" THEN [kind |-> "TypeError"]
     ELSE [kind |-> "ok", text |-> query, intent |-> intent,
           keywords |-> keywords, processedText |-> expanded.text]

tableWord == Str(<<116, 97, 98, 108, 101>>)

\* rerank without its length term.
ScoreWithoutLength(query, chunk) ==
  chunk.similarity
  + (Ratio(Len(SelectSeq(splitWords(toLowerCase(query)),
                         LAMBDA word :
                           includes(splitWords(toLowerCase(chunk.content)),
                                    word))),
           Len(splitWords(toLowerCase(query)))) * 2) \div 10
  + (IF Contains(toLowerCase(query), tableWord) /\ chunk.type = "visual_context"
     THEN Scale \div 10 ELSE 0)

\* The score rerank gives a chunk.
RerankedScore(query, chunk) ==
  LET queryWords == splitWords(toLowerCase(query))
      contentWords == splitWords(toLowerCase(chunk.content))
      exactMatches ==
        Len(SelectSeq(queryWords, LAMBDA word : includes(contentWords, word)))
      distance == IF StrLen(chunk.content) >= 300
                  THEN StrLen(chunk.content) - 300
                  ELSE 300 - StrLen(chunk.content)
      lengthScore == IF Scale - (distance * Scale) \div 1000 > 0
                     THEN Scale - (distance * Scale) \div 1000 ELSE 0
  IN chunk.similarity
     + (Ratio(exactMatches, Len(queryWords)) * 2) \div 10
     + (IF Contains(toLowerCase(query), tableWord)
           /\ chunk.type = "visual_context"
        THEN Scale \div 10 ELSE 0)
     + (lengthScore * 5) \div 100

\* {...chunk, rerankedScore: score}
Reranked(chunk, score) ==
  [content |-> chunk.content, similarity |-> chunk.similarity,
   documentId |-> chunk.documentId, chunkId |-> chunk.chunkId,
   metadata |-> chunk.metadata, type |-> chunk.type, rerankedScore |-> score]

\* rerank without its sort: the chunks stay in the order of the search.
RerankedAppend(sorted, x) == Append(sorted, x)

\* Array.prototype.sort((a, b) => b.rerankedScore - a.rerankedScore), stable.
RerankedInsert(sorted, x) ==
  LET ahead == Cardinality({i \in 1..Len(sorted) :
                              sorted[i].rerankedScore >= x.rerankedScore})
  IN SubSeq(sorted, 1, ahead) \o <<x>> \o SubSeq(sorted, ahead + 1, Len(sorted))

RECURSIVE SortByRerankedScore(_, _, _)
SortByRerankedScore(chunks, i, sorted) ==
  IF i > Len(chunks) THEN sorted
  ELSE SortByRerankedScore(chunks, i + 1, RerankedInsert(sorted, chunks[i]))

rerank(query, chunks) ==
  SortByRerankedScore(
    [i \in 1..Len(chunks) |-> Reranked(chunks[i], RerankedScore(query, chunks[i]))],
    1, <<>>)

SourceLabel == Str(<<83, 111, 117, 114, 99, 101, 58, 32>>)

TypeName(type) ==
  IF type = "paragraph"
  THEN Str(<<112, 97, 114, 97, 103, 114, 97, 112, 104>>)
  ELSE Str(<<118, 105, 115, 117, 97, 108, 95, 99, 111, 110, 116, 101, 120,
             116>>)

\* `Source: ${chunk.type}\n${chunk.content}\n\n`
ChunkText(chunk) ==
  SourceLabel \o TypeName(chunk.type) \o <<Newline>> \o chunk.content
  \o BlankLine

\* The first n characters of a string.
RECURSIVE TakeChars(_, _)
TakeChars(s, n) ==
  IF n <= 0 \/ s = <<>> THEN <<>>
  ELSE IF Head(s).n <= n THEN <<Head(s)>> \o TakeChars(Tail(s), n - Head(s).n)
  ELSE <<Run(Head(s).c, n)>>

\* buildContext filling the budget with the start of the chunk that does
\* not fit.
RECURSIVE BuildLoopTruncating(_, _, _)
BuildLoopTruncating(chunks, i, context) ==
  IF i > Len(chunks) THEN context
  ELSE IF StrLen(context) + StrLen(ChunkText(chunks[i])) <= maxContextLength
       THEN BuildLoopTruncating(chunks, i + 1, context \o ChunkText(chunks[i]))
       ELSE context \o TakeChars(ChunkText(chunks[i]),
                                 maxContextLength - StrLen(context))

\* for (const chunk of chunks): append while the text fits, else break.
RECURSIVE BuildLoop(_, _, _)
BuildLoop(chunks, i, context) ==
  IF i > Len(chunks) THEN context
  ELSE IF StrLen(context) + StrLen(ChunkText(chunks[i])) <= maxContextLength
       THEN BuildLoop(chunks, i + 1, context \o ChunkText(chunks[i]))
       ELSE context

buildContext(chunks) == BuildLoop(chunks, 1, <<>>)

NoInformationText ==
  Str(<<73, 32, 99, 111, 117, 108, 100, 110, 39, 116, 32, 102, 105, 110,
        100, 32, 115, 112, 101, 99, 105, 102, 105, 99, 32, 105, 110, 102,
        111, 114, 109, 97, 116, 105, 111, 110, 32, 105, 110, 32, 116, 104,
        101, 32, 117, 112, 108, 111, 97, 100, 101, 100, 32, 100, 111, 99,
        117, 109, 101, 110, 116, 115, 32, 116, 111, 32, 97, 110, 115, 119,
        101, 114, 32, 121, 111, 117, 114, 32, 113, 117, 101, 115, 116, 105,
        111, 110, 46, 32, 80, 108, 101, 97, 115, 101, 32, 109, 97, 107,
        101, 32, 115, 117, 114, 101, 32, 116, 104, 101, 32, 114, 101, 108,
        101, 118, 97, 110, 116, 32, 100, 111, 99, 117, 109, 101, 110, 116,
        115, 32, 97, 114, 101, 32, 117, 112, 108, 111, 97, 100, 101, 100,
        32, 97, 110, 100, 32, 116, 114, 121, 32, 114, 101, 112, 104, 114,
        97, 115, 105, 110, 103, 32, 121, 111, 117, 114, 32, 113, 117, 101,
        115, 116, 105, 111, 110, 46>>)

\* summarizeContext without its test for an empty context.
summarizeAnyContext(context) ==
  join(Take(SelectSeq(splitClass(context, {46, 33, 63}),
                      LAMBDA s : StrLen(trim(s)) > 20), 3), DotSpace)
  \o (IF Len(SelectSeq(splitClass(context, {46, 33, 63}),
                       LAMBDA s : StrLen(trim(s)) > 20)) > 3
      THEN <<Dot, Dot, Dot>> ELSE <<Dot>>)

summarizeContext(context) ==
  IF StrLen(context) = 0 THEN NoInformationText
  ELSE LET sentences == SelectSeq(splitClass(context, {46, 33, 63}),
                                  LAMBDA s : StrLen(trim(s)) > 20)
           keySentences == join(Take(sentences, 3), DotSpace)
       IN keySentences
          \o (IF Len(sentences) > 3 THEN <<Dot, Dot, Dot>> ELSE <<Dot>>)

calculateResponseConfidence(context, query) ==
  LET queryWords == splitWords(toLowerCase(query))
      contextWords == splitWords(toLowerCase(context))
      matchRatio ==
        Ratio(Len(SelectSeq(queryWords,
                            LAMBDA word : includes(contextWords, word))),
              Len(queryWords))
      confidence == Scale \div 2
                    + (IF StrLen(context) > 500 THEN (2 * Scale) \div 10 ELSE 0)
                    + (matchRatio * 3) \div 10
  IN IF confidence < Scale THEN confidence ELSE Scale

templates(intent, query) ==
  IF intent = "factual"
  THEN Str(<<66, 97, 115, 101, 100, 32, 111, 110, 32, 116, 104, 101, 32,
             112, 114, 111, 118, 105, 100, 101, 100, 32, 99, 111, 110, 116,
             101, 120, 116, 44, 32, 104, 101, 114, 101, 39, 115, 32, 119,
             104, 97, 116, 32, 73, 32, 102, 111, 117, 110, 100, 32, 97, 98,
             111, 117, 116, 32, 34>>)
       \o query \o Str(<<34, 58, 10, 10>>)
  ELSE IF intent = "comparison"
  THEN Str(<<67, 111, 109, 112, 97, 114, 105, 110, 103, 32, 116, 104, 101,
             32, 105, 110, 102, 111, 114, 109, 97, 116, 105, 111, 110, 32,
             102, 114, 111, 109, 32, 116, 104, 101, 32, 100, 111, 99, 117,
             109, 101, 110, 116, 115, 58, 10, 10>>)
  ELSE IF intent = "procedural"
  THEN Str(<<72, 101, 114, 101, 32, 97, 114, 101, 32, 116, 104, 101, 32,
             115, 116, 101, 112, 115, 32, 98, 97, 115, 101, 100, 32, 111,
             110, 32, 116, 104, 101, 32, 100, 111, 99, 117, 109, 101, 110,
             116, 97, 116, 105, 111, 110, 58, 10, 10>>)
  ELSE IF intent = "analytical"
  THEN Str(<<66, 97, 115, 101, 100, 32, 111, 110, 32, 109, 121, 32, 97,
             110, 97, 108, 121, 115, 105, 115, 32, 111, 102, 32, 116, 104,
             101, 32, 112, 114, 111, 118, 105, 100, 101, 100, 32, 100, 97,
             116, 97, 58, 10, 10>>)
  ELSE IF intent = "numerical"
  THEN Str(<<72, 101, 114, 101, 32, 97, 114, 101, 32, 116, 104, 101, 32,
             107, 101, 121, 32, 115, 116, 97, 116, 105, 115, 116, 105, 99,
             115, 32, 97, 110, 100, 32, 110, 117, 109, 98, 101, 114, 115,
             58, 10, 10>>)
  ELSE IF intent = "visual"
  THEN Str(<<66, 97, 115, 101, 100, 32, 111, 110, 32, 116, 104, 101, 32,
             99, 104, 97, 114, 116, 115, 44, 32, 116, 97, 98, 108, 101,
             115, 44, 32, 97, 110, 100, 32, 118, 105, 115, 117, 97, 108,
             32, 101, 108, 101, 109, 101, 110, 116, 115, 58, 10, 10>>)
  ELSE Str(<<66, 97, 115, 101, 100, 32, 111, 110, 32, 116, 104, 101, 32,
             97, 118, 97, 105, 108, 97, 98, 108, 101, 32, 105, 110, 102,
             111, 114, 109, 97, 116, 105, 111, 110, 58, 10, 10>>)

generate(query, context, intent) ==
  [text |-> templates(intent, query) \o summarizeContext(context),
   confidence |-> calculateResponseConfidence(context, query),
   intent |-> intent,
   contextUsed |-> StrLen(context) > 0]

calculateRelevanceScore(chunks, response) ==
  IF Len(chunks) = 0 THEN 0
  ELSE LET avgSimilarity == Mean(Sum(Pluck(chunks, "similarity")), Len(chunks))
           responseConfidence ==
             IF response.confidence = 0 THEN Scale \div 2
             ELSE response.confidence
       IN (avgSimilarity * 6) \div 10 + (responseConfidence * 4) \div 10

\* selectedChunks.map(chunk => ({content, similarity, documentId, type, metadata}))
SourceOf(chunk) ==
  [content |-> chunk.content, similarity |-> chunk.similarity,
   documentId |-> chunk.documentId, type |-> chunk.type,
   metadata |-> chunk.metadata]

\* query, step by step; st holds the values the call has computed so far
\* and the stages it has passed.
\* Step 2: Retrieve relevant chunks (scanned: the records search compares).
WithRetrieved(st, store, documentIds, filters) ==
  [stages |-> Append(st.stages, "Retrieved"),
   embeddedText |-> st.processedQuery.text,
   scanned |-> Pluck(Pluck(Scanned(store.vectors, documentIds), "value"),
                     "id"),
   relevantChunks |->
     searchWithQuery(store, st.processedQuery.text, documentIds,
                     filters @@ [minSimilarity |-> DefaultMinSimilarity])]
  @@ st

\* Step 3: Rerank and select best chunks
WithReranked(st) ==
  [rerankedChunks |-> rerank(st.query, st.relevantChunks)] @@ st

WithSelected(st) ==
  [stages |-> Append(st.stages, "Reranked"),
   selectedChunks |-> Take(st.rerankedChunks, topK)] @@ st

\* Step 4: Generate context-aware response
WithContext(st) ==
  [stages |-> Append(st.stages, "ContextBuilt"),
   context |-> buildContext(st.selectedChunks)] @@ st

WithAnswer(st) ==
  [stages |-> Append(st.stages, "Answered"),
   answer |-> generate(st.query, st.context, st.processedQuery.intent)] @@ st

\* Step 5: Calculate relevance score; the returned object.
Returned(st) ==
  [kind |-> "ok",
   stages |-> Append(st.stages, "Scored"),
   processedQuery |-> st.processedQuery,
   embeddedText |-> st.embeddedText,
   scanned |-> st.scanned,
   relevantChunks |-> st.relevantChunks,
   rerankedChunks |-> st.rerankedChunks,
   selectedChunks |-> st.selectedChunks,
   response |->
     [answer |-> st.answer,
      sources |-> [i \in 1..Len(st.selectedChunks) |->
                     SourceOf(st.selectedChunks[i])],
      relevanceScore |-> calculateRelevanceScore(st.selectedChunks, st.answer),
      context |-> st.context,
      queryIntent |-> st.processedQuery.intent]]

\* Step 1 has run: the call throws what preprocessQuery threw, or goes on.
Preprocessed(st, store, documentIds, filters) ==
  IF st.processedQuery.kind = "TypeError"
  THEN [kind |-> "throw", stages |-> st.stages]
  ELSE Returned(WithAnswer(WithContext(WithSelected(WithReranked(
         WithRetrieved([stages |-> Append(st.stages, "QueryProcessed")] @@ st,
                       store, documentIds, filters))))))

\* query: what the call returns or that it throws, with the values of its
\* steps. store is this.vectorStore. None of its awaits waits for I/O, so
\* the call runs without another request's code in between.
query(store, userQuery, documentIds, filters) ==
  Preprocessed([stages |-> <<"Received">>,
                query |-> userQuery,
                processedQuery |-> preprocessQuery(userQuery)],
               store, documentIds, filters)

(***************************************************************************)
(* State                                                                   *)
(***************************************************************************)
VARIABLES
  ckText,        \* createChunks: the text argument
  ckSourceType,  \* createChunks: the sourceType argument
  ckMetadata,    \* createChunks: the metadata argument
  ckChunks,      \* createChunks: the returned array
  ckCalled,      \* whether createChunks has returned
  queryHistory,        \* EvaluationMetrics.queryHistory
  performanceMetrics,  \* EvaluationMetrics.performanceMetrics
  lastCall,      \* the latest EvaluationMetrics call and its arguments
  lastReturn,    \* what that call returned
  workload,      \* the requests a long run offers, repeated cyclically
  vectorStore,   \* a VectorStore: [vectors, documents]
  storeLog,      \* the storeDocument calls completed so far (history)
  vsCall,        \* the latest VectorStore call and its arguments
  vsReturn,      \* what that call returned
  ragPipeline,   \* the RAGPipeline of the server: [vectorStore]
  db,            \* MongoDB: [connected, documents], the documents collection
  uploads,       \* the /api/upload requests waiting at an await
  httpRequest,   \* the request answered latest
  httpResponse,  \* the response it got
  queryTrace,    \* the steps of the latest ragPipeline.query
  ragCall,       \* the latest RAGPipeline method call and its arguments
  ragReturn,     \* what that call returned
  storing        \* the storeDocument calls waiting at their await

chunkVars == <<ckText, ckSourceType, ckMetadata, ckChunks, ckCalled>>
evalVars == <<queryHistory, performanceMetrics, lastCall, lastReturn, workload>>
storeVars == <<vectorStore, storeLog, vsCall, vsReturn>>
serverVars ==
  <<ragPipeline, db, uploads, httpRequest, httpResponse, queryTrace>>
pipelineVars == <<ragCall, ragReturn, storing>>
vars == <<chunkVars, evalVars, storeVars, serverVars, pipelineVars>>

(***************************************************************************)
(* The chunker as a function of its inputs                                 *)
(***************************************************************************)
MaxPieces == 4

ShortWord == <<Run(120, 1)>>
HalfLimitWord == <<Run(109, ParagraphLimit \div 2)>>
OverLimitWord == <<Run(108, ParagraphLimit + 1)>>

Pieces ==
  {ShortWord, HalfLimitWord, OverLimitWord,
   DotSpace, BlankLine, <<Space>>, <<Dot>>, <<Newline>>}

RECURSIVE Flatten(_)
Flatten(ss) == IF ss = <<>> THEN <<>> ELSE Head(ss) \o Flatten(Tail(ss))

PieceSeqs == UNION {[1..k -> Pieces] : k \in 0..MaxPieces}
Texts == {Flatten(ps) : ps \in PieceSeqs}

AuxMetadata ==
  {[tables |-> <<>>, charts |-> <<>>], [tables |-> <<1>>, charts |-> <<1>>]}

ChunkIdle ==
  /\ ckText = <<>>
  /\ ckSourceType = "pdf"
  /\ ckMetadata = [tables |-> <<>>, charts |-> <<>>]
  /\ ckChunks = <<>>
  /\ ckCalled = FALSE

\* new VectorStore()
NewVectorStore == [vectors |-> <<>>, documents |-> <<>>]

StoreConstructed ==
  /\ vectorStore = NewVectorStore
  /\ storeLog = <<>>
  /\ vsCall = [op |-> "none"]
  /\ vsReturn = [op |-> "none"]

\* new EvaluationMetrics()
EvalConstructed ==
  /\ queryHistory = <<>>
  /\ performanceMetrics = [totalQueries |-> 0, avgLatency |-> 0,
                           avgRelevanceScore |-> 0, successRate |-> 0]
  /\ lastCall = [op |-> "none"]
  /\ lastReturn = [op |-> "none"]

\* No RAGPipeline method called, no storeDocument call waiting.
PipelineIdle ==
  /\ ragCall = [op |-> "none"]
  /\ ragReturn = [op |-> "none"]
  /\ storing = <<>>

\* new RAGPipeline(), the MongoDB client, no request yet.
ServerIdle ==
  /\ ragPipeline = [vectorStore |-> NewVectorStore]
  /\ db = [connected |-> TRUE, documents |-> <<>>]
  /\ uploads = <<>>
  /\ httpRequest = [route |-> "none"]
  /\ httpResponse = [route |-> "none"]
  /\ queryTrace = [kind |-> "none"]
  /\ PipelineIdle

ChunkInit ==
  /\ ServerIdle
  /\ EvalConstructed
  /\ StoreConstructed
  /\ workload = <<>>
  /\ ckText \in Texts
  /\ ckSourceType \in {"pdf", "image"}
  /\ ckMetadata \in AuxMetadata
  /\ ckChunks = <<>>
  /\ ckCalled = FALSE

CreateChunksCall ==
  /\ ~ckCalled
  /\ ckChunks' = createChunks(ckText, ckSourceType, ckMetadata)
  /\ ckCalled' = TRUE
  /\ UNCHANGED <<ckText, ckSourceType, ckMetadata>>
  /\ UNCHANGED <<evalVars, storeVars, serverVars, pipelineVars>>

ChunkNext == CreateChunksCall

SpecChunk == ChunkInit /\ [][ChunkNext]_vars

(***************************************************************************)
(* EvaluationMetrics: operations                                           *)
(***************************************************************************)
CalculateMetrics(response, latency) ==
  LET metrics == MetricsOf(response, latency)
      updated == updatePerformanceMetrics(queryHistory, performanceMetrics,
                                          metrics)
  IN /\ queryHistory' = updated.queryHistory
     /\ performanceMetrics' = updated.performanceMetrics
     /\ lastCall' = [op |-> "calculateMetrics", response |-> response,
                     latency |-> latency]
     /\ lastReturn' = metrics

GetPerformanceReport ==
  /\ lastCall' = [op |-> "getPerformanceReport"]
  /\ lastReturn' = getPerformanceReport(queryHistory, performanceMetrics)
  /\ UNCHANGED <<queryHistory, performanceMetrics>>

(***************************************************************************)
(* calculateMetrics as a function of one response                          *)
(***************************************************************************)
MaxSources == 3

Revenue == Str(<<82, 101, 118, 101, 110, 117, 101>>)
revenue == Str(<<114, 101, 118, 101, 110, 117, 101>>)
grew == Str(<<103, 114, 101, 119>>)
the == Str(<<116, 104, 101>>)
Costs == Str(<<67, 111, 115, 116, 115>>)
fell == Str(<<102, 101, 108, 108, 46>>)

Latencies == {500, 2000, 4000}
Confidences == {0, Scale \div 2, Scale}
Similarities == {0, Scale \div 2, (6 * Scale) \div 10, (8 * Scale) \div 10, Scale}
AnswerTexts ==
  {<<>>, join(<<Revenue, grew>>, <<Space>>),
   join(<<the, revenue, fell>>, <<Space>>),
   <<Space>> \o Costs \o <<Space>>}
Contexts ==
  {<<>>, join(<<revenue, grew, the>>, <<Space>>),
   Costs \o <<Space>> \o fell \o BlankLine}
SourceLists ==
  UNION {[1..k -> [similarity : Similarities]] : k \in 0..MaxSources}

Responses ==
  [answer : [text : AnswerTexts, confidence : Confidences],
   sources : SourceLists,
   context : Contexts,
   relevanceScore : {0, Scale}]

MetricsInit ==
  /\ ServerIdle
  /\ ChunkIdle
  /\ StoreConstructed
  /\ EvalConstructed
  /\ workload = <<>>

CalculateMetricsOnce ==
  /\ lastCall.op = "none"
  /\ \E response \in Responses, latency \in Latencies :
       CalculateMetrics(response, latency)
  /\ UNCHANGED <<chunkVars, workload, storeVars, serverVars, pipelineVars>>

MetricsNext == CalculateMetricsOnce

SpecMetrics == MetricsInit /\ [][MetricsNext]_vars

(***************************************************************************)
(* EvaluationMetrics under any sequence of calls                           *)
(***************************************************************************)
MaxHistory == 3

NoSourcesResponse ==
  [answer |-> [text |-> the, confidence |-> Scale \div 2],
   sources |-> <<>>, context |-> <<>>, relevanceScore |-> 0]
GoodResponse ==
  [answer |-> [text |-> join(<<Revenue, grew>>, <<Space>>),
               confidence |-> (8 * Scale) \div 10],
   sources |-> <<[similarity |-> (8 * Scale) \div 10],
                 [similarity |-> (6 * Scale) \div 10]>>,
   context |-> join(<<revenue, grew, the>>, <<Space>>),
   relevanceScore |-> (74 * Scale) \div 100]
WeakResponse ==
  [answer |-> [text |-> join(<<the, revenue, fell>>, <<Space>>),
               confidence |-> 0],
   sources |-> <<[similarity |-> (3 * Scale) \div 10]>>,
   context |-> Costs \o <<Space>> \o fell \o BlankLine,
   relevanceScore |-> (38 * Scale) \div 100]
FewResponses == {NoSourcesResponse, GoodResponse, WeakResponse}

EvalInit ==
  /\ ServerIdle
  /\ ChunkIdle
  /\ StoreConstructed
  /\ EvalConstructed
  /\ workload = <<>>

CalculateMetricsCall ==
  /\ Len(queryHistory) < MaxHistory
  /\ \E response \in FewResponses, latency \in Latencies :
       CalculateMetrics(response, latency)
  /\ UNCHANGED <<chunkVars, workload, storeVars, serverVars, pipelineVars>>

GetPerformanceReportCall ==
  /\ GetPerformanceReport
  /\ UNCHANGED <<chunkVars, workload, storeVars, serverVars, pipelineVars>>

EvalNext == CalculateMetricsCall \/ GetPerformanceReportCall

SpecEval == EvalInit /\ [][EvalNext]_vars

(***************************************************************************)
(* EvaluationMetrics over a long run of queries                            *)
(***************************************************************************)
MaxRecorded == 120
MaxPeriod == 3

Requests ==
  {[response |-> NoSourcesResponse, latency |-> 4000],
   [response |-> GoodResponse, latency |-> 500],
   [response |-> WeakResponse, latency |-> 2000]}

Workloads == UNION {[1..p -> Requests] : p \in 1..MaxPeriod}

WindowInit ==
  /\ ServerIdle
  /\ ChunkIdle
  /\ StoreConstructed
  /\ EvalConstructed
  /\ workload \in Workloads

NextRequest == workload[(Len(queryHistory) % Len(workload)) + 1]

RecordQuery ==
  /\ Len(queryHistory) < MaxRecorded
  /\ CalculateMetrics(NextRequest.response, NextRequest.latency)
  /\ UNCHANGED <<chunkVars, workload, storeVars, serverVars, pipelineVars>>

WindowNext == RecordQuery \/ GetPerformanceReportCall

SpecWindow == WindowInit /\ [][WindowNext]_vars

(***************************************************************************)
(* VectorStore: operations                                                 *)
(***************************************************************************)
\* generateEmbeddings has no try of its own: a chunk whose content is
\* undefined makes simulateEmbedding throw a TypeError (text.toLowerCase),
\* before storeDocument has written anything.
EmbeddingThrows(chunks) ==
  \E i \in 1..Len(chunks) : "content" \notin DOMAIN chunks[i]

\* storeDocument's catch logs and rethrows.
StoreDocument(documentId, processingResult) ==
  /\ vsCall' = [op |-> "storeDocument", documentId |-> documentId,
                processingResult |-> processingResult]
  /\ IF EmbeddingThrows(processingResult.chunks)
     THEN /\ vsReturn' = [kind |-> "throw", error |-> "TypeError"]
          /\ UNCHANGED <<vectorStore, storeLog>>
     ELSE /\ vectorStore' = storeDocument(vectorStore, documentId,
                                          processingResult)
          /\ storeLog' = Append(storeLog,
                                [documentId |-> toString(documentId),
                                 chunks |-> processingResult.chunks])
          /\ vsReturn' = [kind |-> "ok", success |-> TRUE,
                          chunksStored |-> Len(processingResult.chunks)]

\* search has no throw: it always returns its result list.
Search(queryEmbedding, documentIds, limit) ==
  /\ vsCall' = [op |-> "search", queryEmbedding |-> queryEmbedding,
                documentIds |-> documentIds, limit |-> limit]
  /\ vsReturn' = [kind |-> "ok",
                  results |-> search(vectorStore, queryEmbedding, documentIds,
                                     limit)]
  /\ UNCHANGED <<vectorStore, storeLog>>

(***************************************************************************)
(* A VectorStore under any sequence of storeDocument and search calls      *)
(***************************************************************************)
MaxStores == 3

RevenueText ==
  Str(<<82, 101, 118, 101, 110, 117, 101, 32, 103, 114, 101, 119, 32, 49,
        48, 37, 46, 10, 10, 67, 111, 115, 116, 115, 32, 102, 101, 108, 108,
        46>>)
CostsText ==
  Str(<<67, 111, 115, 116, 115, 32, 102, 101, 108, 108, 46>>)

\* processPDF: the chunks and metadata of a processing result.
ProcessedPDF(textContent) ==
  [chunks |-> createChunks(textContent, "pdf",
                           [tables |-> <<>>, charts |-> <<>>]),
   metadata |->
     [wordCount |-> Len(SelectSeq(textContent, LAMBDA t : t = Space)) + 1,
      hasImages |-> FALSE]]

\* A processing result whose second chunk has no content.
ChunkWithoutContent ==
  [chunks |-> ProcessedPDF(CostsText).chunks
                \o <<[id |-> 2, type |-> "paragraph"]>>,
   metadata |-> ProcessedPDF(CostsText).metadata]

ProcessingResults ==
  {ProcessedPDF(RevenueText), ProcessedPDF(CostsText), ProcessedPDF(<<>>),
   ChunkWithoutContent}

DocumentIds ==
  {[type |-> "string", value |-> Str(<<55>>)],
   [type |-> "string", value |-> Str(<<55, 95, 49>>)],
   [type |-> "number", number |-> 7]}

QueryEmbeddings ==
  {simulateEmbedding(toLowerCase(CostsText)),
   simulateEmbedding(join(<<revenue, grew>>, <<Space>>)),
   [length |-> 2, at |-> (0 :> 1)]}

DocumentFilters ==
  {[given |-> FALSE],
   [given |-> TRUE, ids |-> <<>>],
   [given |-> TRUE, ids |-> <<Str(<<55>>)>>]}

Limits == {1, 10}

StoreInit ==
  /\ ServerIdle
  /\ ChunkIdle
  /\ EvalConstructed
  /\ workload = <<>>
  /\ StoreConstructed

StoreDocumentCall ==
  /\ Len(storeLog) < MaxStores
  /\ \E documentId \in DocumentIds, processingResult \in ProcessingResults :
       StoreDocument(documentId, processingResult)
  /\ UNCHANGED <<chunkVars, evalVars, serverVars, pipelineVars>>

SearchCall ==
  /\ \E queryEmbedding \in QueryEmbeddings, documentIds \in DocumentFilters,
        limit \in Limits :
       Search(queryEmbedding, documentIds, limit)
  /\ UNCHANGED <<chunkVars, evalVars, serverVars, pipelineVars>>

StoreNext == StoreDocumentCall \/ SearchCall

SpecStore == StoreInit /\ [][StoreNext]_vars

(***************************************************************************)
(* server/index.js: POST /api/upload and POST /api/query                   *)
(*                                                                         *)
(* A handler runs without interruption up to an await that waits for I/O:  *)
(* documentProcessor.processDocument (pdf-parse, sharp) and                *)
(* db.collection('documents').insertOne. The awaits of storeDocument and   *)
(* of ragPipeline.query wait for nothing outside the process.              *)
(***************************************************************************)
MaxUploads == 1
MaxQueries == 1

\* A processor that also takes plain text.
supportedTypesAndText ==
  {"application/pdf", "image/jpeg", "image/png", "image/tiff", "image/bmp",
   "text/plain"}

supportedTypes ==
  {"application/pdf", "image/jpeg", "image/png", "image/tiff", "image/bmp"}

\* performOCR
OcrText ==
  Str(<<83, 97, 109, 112, 108, 101, 32, 79, 67, 82, 32, 101, 120, 116, 114,
        97, 99, 116, 101, 100, 32, 116, 101, 120, 116, 32, 99, 111, 110,
        116, 101, 110, 116, 32, 102, 114, 111, 109, 32, 116, 104, 101, 32,
        105, 109, 97, 103, 101, 46, 46, 46>>)

\* processImage: the chunks and metadata of a processing result.
ProcessedImage ==
  [chunks |-> createChunks(OcrText, "image",
                           [tables |-> <<[id |-> 1, type |-> "visual_table"]>>,
                            charts |-> <<[id |-> 1, type |-> "bar_chart"]>>]),
   metadata |-> [hasText |-> StrLen(OcrText) > 0, hasTables |-> TRUE,
                 hasCharts |-> TRUE]]

\* processDocument, once the file has been read without an error.
processDocument(file) ==
  IF file.mimetype = "application/pdf" THEN ProcessedPDF(file.text)
  ELSE ProcessedImage

\* req.file: absent, or an uploaded file with its MIME type and, for a PDF,
\* the text pdf-parse extracts from it.
NoFile == [present |-> FALSE]
Files ==
  {[present |-> TRUE, mimetype |-> "application/pdf", text |-> RevenueText],
   [present |-> TRUE, mimetype |-> "application/pdf", text |-> CostsText],
   [present |-> TRUE, mimetype |-> "image/png", text |-> <<>>],
   [present |-> TRUE, mimetype |-> "text/plain", text |-> CostsText]}

\* result.insertedId: the ObjectId the driver generates for the n-th document.
ObjectIdPrefix == Str(<<54, 53, 102, 48, 99, 48, 102, 102, 101, 101, 48, 49, 50, 51, 52,
          53, 54, 55, 56, 57, 97, 98, 99>>)
NewObjectId(n) ==
  [type |-> "ObjectId", value |-> ObjectIdPrefix \o <<Ch(48 + n)>>]

WhatHappenedToRevenue ==
  Str(<<87, 104, 97, 116, 32, 104, 97, 112, 112, 101, 110, 101, 100, 32,
        116, 111, 32, 114, 101, 118, 101, 110, 117, 101, 63>>)
ExplainTheConstructor ==
  Str(<<69, 120, 112, 108, 97, 105, 110, 32, 116, 104, 101, 32, 99, 111,
        110, 115, 116, 114, 117, 99, 116, 111, 114>>)
WhatIsData ==
  Str(<<87, 104, 97, 116, 32, 105, 115, 32, 116, 104, 101, 32, 100, 97,
        116, 97>>)

\* req.body.query
Queries ==
  {WhatHappenedToRevenue, toLowerCase(CostsText), ExplainTheConstructor,
   WhatIsData}

\* req.body.documentIds: absent, or an array of ids of listed documents.
QueryDocumentIds ==
  {[given |-> FALSE], [given |-> TRUE, ids |-> <<>>]}
  \cup {[given |-> TRUE, ids |-> <<db.documents[i]._id.value>>] :
          i \in 1..Len(db.documents)}
  \cup {[given |-> TRUE,
         ids |-> [i \in 1..Len(db.documents) |-> db.documents[i]._id.value]]}

\* req.body.filters
QueryFilters ==
  {NoFilters, [minSimilarity |-> 0], [contentType |-> "paragraph"]}

\* Date.now() - startTime
QueryLatencies == {0, 1500}

\* The server listens after connectDB has settled: db is the database, or
\* undefined when the connection failed.
ServerInit ==
  /\ ChunkIdle
  /\ EvalConstructed
  /\ workload = <<>>
  /\ StoreConstructed
  /\ ragPipeline = [vectorStore |-> NewVectorStore]
  /\ db \in [connected : BOOLEAN, documents : {<<>>}]
  /\ uploads = <<>>
  /\ httpRequest = [route |-> "none"]
  /\ httpResponse = [route |-> "none"]
  /\ queryTrace = [kind |-> "none"]
  /\ PipelineIdle

\* res.status(status).json(body) for a request.
Respond(request, status, body) ==
  /\ httpRequest' = request
  /\ httpResponse' = [route |-> request.route, status |-> status, body |-> body]

Without(seq, i) == SubSeq(seq, 1, i - 1) \o SubSeq(seq, i + 1, Len(seq))

UploadFailed == [error |-> "Document processing failed"]

\* POST /api/upload up to "await documentProcessor.processDocument(file)":
\* 400 without a file, 500 when processDocument throws for the MIME type,
\* else the upload waits for the file to be processed.
UploadRequest ==
  /\ \E file \in Files \cup {NoFile} :
       LET request == [route |-> "/api/upload", file |-> file]
       IN IF ~file.present
          THEN /\ Respond(request, 400, [error |-> "No file uploaded"])
               /\ UNCHANGED uploads
          ELSE IF file.mimetype \notin supportedTypes
          THEN /\ Respond(request, 500, UploadFailed)
               /\ UNCHANGED uploads
          ELSE /\ Len(uploads) + Len(db.documents) < MaxUploads
               /\ uploads' = Append(uploads, [request |-> request,
                                              stage |-> "processing"])
               /\ UNCHANGED <<httpRequest, httpResponse>>
  /\ UNCHANGED <<ragPipeline, db, queryTrace>>
  /\ UNCHANGED <<chunkVars, evalVars, storeVars, pipelineVars>>

\* processDocument settles: pdf-parse or sharp rejects the file (500), or the
\* result is there and the handler goes on to db.collection('documents'),
\* which throws when db is undefined (500), and to insertOne.
ProcessingDone ==
  /\ \E i \in 1..Len(uploads), readable \in BOOLEAN :
       /\ uploads[i].stage = "processing"
       /\ IF ~readable \/ ~db.connected
          THEN /\ Respond(uploads[i].request, 500, UploadFailed)
               /\ uploads' = Without(uploads, i)
          ELSE /\ uploads' =
                    [uploads EXCEPT ![i] =
                       [request |-> uploads[i].request,
                        stage |-> "inserting",
                        processingResult |->
                          processDocument(uploads[i].request.file)]]
               /\ UNCHANGED <<httpRequest, httpResponse>>
  /\ UNCHANGED <<ragPipeline, db, queryTrace>>
  /\ UNCHANGED <<chunkVars, evalVars, storeVars, pipelineVars>>

\* MongoDB performs insertOne: the document is in the collection with
\* status 'processed', or the insert fails and the handler answers 500.
MongoInsert ==
  /\ \E i \in 1..Len(uploads), inserted \in BOOLEAN :
       /\ uploads[i].stage = "inserting"
       /\ IF inserted
          THEN LET insertedId == NewObjectId(Len(db.documents) + 1)
               IN /\ db' = [db EXCEPT !.documents =
                              Append(@, [_id |-> insertedId,
                                         mimetype |->
                                           uploads[i].request.file.mimetype,
                                         processingResult |->
                                           uploads[i].processingResult,
                                         status |-> "processed"])]
                  /\ uploads' =
                       [uploads EXCEPT ![i] =
                          [request |-> uploads[i].request,
                           stage |-> "inserted",
                           processingResult |-> uploads[i].processingResult,
                           insertedId |-> insertedId]]
                  /\ UNCHANGED <<httpRequest, httpResponse>>
          ELSE /\ Respond(uploads[i].request, 500, UploadFailed)
               /\ uploads' = Without(uploads, i)
               /\ UNCHANGED db
  /\ UNCHANGED <<ragPipeline, queryTrace>>
  /\ UNCHANGED <<chunkVars, evalVars, storeVars, pipelineVars>>

\* insertOne resolves: vectorStore.storeDocument(result.insertedId,
\* processingResult) and the 200 response, or 500 from the catch of the
\* route when storeDocument throws.
InsertAcknowledged ==
  /\ \E i \in 1..Len(uploads) :
       /\ uploads[i].stage = "inserted"
       /\ StoreDocument(uploads[i].insertedId, uploads[i].processingResult)
       /\ IF EmbeddingThrows(uploads[i].processingResult.chunks)
          THEN Respond(uploads[i].request, 500, UploadFailed)
          ELSE Respond(uploads[i].request, 200,
                       [success |-> TRUE,
                        documentId |-> uploads[i].insertedId.value,
                        processingResult |-> uploads[i].processingResult])
       /\ uploads' = Without(uploads, i)
  /\ UNCHANGED <<ragPipeline, db, queryTrace>>
  /\ UNCHANGED <<chunkVars, evalVars, pipelineVars>>

\* /api/query recording an evaluation of a query that threw.
AnswerQueryRecordingFailure(request, result, latency) ==
  /\ queryTrace' = result
  /\ IF result.kind = "throw"
     THEN /\ Respond(request, 500, [error |-> "Query processing failed"])
          /\ CalculateMetrics([answer |-> [text |-> <<>>, confidence |-> 0],
                               sources |-> <<>>, context |-> <<>>,
                               relevanceScore |-> 0], latency)
     ELSE /\ CalculateMetrics(result.response, latency)
          /\ Respond(request, 200,
                     [response |-> result.response.answer,
                      sources |-> result.response.sources,
                      relevanceScore |-> result.response.relevanceScore,
                      metrics |-> lastReturn',
                      latency |-> latency])

\* /api/query once ragPipeline.query has settled: calculateMetrics and the
\* 200 response, or 500 when the query threw.
AnswerQuery(request, result, latency) ==
  /\ queryTrace' = result
  /\ IF result.kind = "throw"
     THEN /\ Respond(request, 500, [error |-> "Query processing failed"])
          /\ UNCHANGED <<queryHistory, performanceMetrics, lastCall,
                         lastReturn>>
     ELSE /\ CalculateMetrics(result.response, latency)
          /\ Respond(request, 200,
                     [response |-> result.response.answer,
                      sources |-> result.response.sources,
                      relevanceScore |-> result.response.relevanceScore,
                      metrics |-> lastReturn',
                      latency |-> latency])

\* POST /api/query: ragPipeline.query on the pipeline's own vector store,
\* then the evaluation and the response.
QueryRequest ==
  /\ Len(queryHistory) < MaxQueries
  /\ \E userQuery \in Queries, documentIds \in QueryDocumentIds,
        filters \in QueryFilters, latency \in QueryLatencies :
       AnswerQuery([route |-> "/api/query", query |-> userQuery,
                    documentIds |-> documentIds, filters |-> filters],
                   query(ragPipeline.vectorStore, userQuery, documentIds,
                         filters),
                   latency)
  /\ UNCHANGED <<ragPipeline, db, uploads, workload>>
  /\ UNCHANGED <<chunkVars, storeVars, pipelineVars>>

ServerNext ==
  \/ UploadRequest
  \/ ProcessingDone
  \/ MongoInsert
  \/ InsertAcknowledged
  \/ QueryRequest

SpecServer == ServerInit /\ [][ServerNext]_vars

(***************************************************************************)
(* A RAGPipeline on its own: documents are stored in its vectorStore and   *)
(* queries are answered from it                                            *)
(***************************************************************************)
MaxIndexed == 2

\* A PDF of seven short paragraphs about data.
DataText ==
  Str(<<100, 97, 116, 97, 10, 10, 116, 104, 101, 32, 100, 97, 116, 97, 32,
        103, 114, 101, 119, 32, 102, 97, 115, 116, 10, 10, 100, 97, 116,
        97, 32, 103, 114, 101, 119, 32, 102, 101, 108, 108, 10, 10, 119,
        104, 97, 116, 32, 105, 115, 32, 116, 104, 101, 32, 100, 97, 116,
        97, 10, 10, 105, 115, 32, 100, 97, 116, 97, 10, 10, 116, 104, 101,
        32, 100, 97, 116, 97, 10, 10, 116, 104, 101, 32, 100, 97, 116, 97,
        32, 105, 115>>)

SampleTableText ==
  Str(<<83, 97, 109, 112, 108, 101, 32, 116, 97, 98, 108, 101, 32, 116,
        101, 120, 116>>)

PipelineResults == {ProcessedPDF(DataText), ProcessedImage}

PipelineDocumentIds ==
  {[type |-> "string", value |-> Str(<<55>>)],
   [type |-> "string", value |-> Str(<<56>>)]}

PipelineQueries == {WhatIsData, SampleTableText, ExplainTheConstructor}

PipelineSelections == {[given |-> FALSE]}

\* filters: similarities are in units of 1/Scale.
PipelineFilters ==
  {NoFilters,
   [minSimilarity |-> 0],
   [minSimilarity |-> Scale \div 10],
   [minSimilarity |-> Scale \div 2],
   [contentType |-> "visual_context"],
   [contentType |-> "paragraph", minSimilarity |-> 0],
   [contentType |-> ""]}

PipelineInit ==
  /\ ChunkIdle
  /\ EvalConstructed
  /\ workload = <<>>
  /\ StoreConstructed
  /\ ServerIdle

\* ragPipeline.vectorStore.storeDocument(documentId, processingResult), for
\* a document that is not stored yet.
PipelineStoreDocument ==
  /\ Len(ragPipeline.vectorStore.documents) < MaxIndexed
  /\ \E documentId \in PipelineDocumentIds,
        processingResult \in PipelineResults :
       /\ ~MapHas(ragPipeline.vectorStore.documents, toString(documentId))
       /\ ragPipeline' =
            [vectorStore |-> storeDocument(ragPipeline.vectorStore, documentId,
                                           processingResult)]
  /\ UNCHANGED <<chunkVars, evalVars, storeVars, db, uploads, httpRequest,
                 httpResponse, queryTrace, pipelineVars>>

\* ragPipeline.query(query, documentIds, filters)
PipelineQuery ==
  /\ \E userQuery \in PipelineQueries, documentIds \in PipelineSelections,
        filters \in PipelineFilters :
       /\ ragCall' = [op |-> "query", query |-> userQuery,
                      documentIds |-> documentIds, filters |-> filters]
       /\ ragReturn' = query(ragPipeline.vectorStore, userQuery, documentIds,
                             filters)
  /\ UNCHANGED <<chunkVars, evalVars, storeVars, serverVars, storing>>

PipelineNext == PipelineStoreDocument \/ PipelineQuery

SpecPipeline == PipelineInit /\ [][PipelineNext]_vars

(***************************************************************************)
(* RAGPipeline.buildContext on lists of selected chunks                    *)
(***************************************************************************)
MaxSelected == 3

\* Chunks whose entries take 30, 1920, 4000, 4001 and 2075 characters.
SelectableChunks ==
  {[type |-> "paragraph", content |-> <<Run(97, 10)>>],
   [type |-> "paragraph", content |-> <<Run(98, 1900)>>],
   [type |-> "paragraph", content |-> <<Run(99, 3980)>>],
   [type |-> "paragraph", content |-> <<Run(100, 3981)>>],
   [type |-> "visual_context", content |-> <<Run(101, 2050)>>]}

ChunkLists == UNION {[1..k -> SelectableChunks] : k \in 0..MaxSelected}

ContextInit ==
  /\ ChunkIdle
  /\ EvalConstructed
  /\ workload = <<>>
  /\ StoreConstructed
  /\ ServerIdle

\* ragPipeline.buildContext(chunks)
BuildContextCall ==
  /\ \E chunks \in ChunkLists :
       /\ ragCall' = [op |-> "buildContext", chunks |-> chunks]
       /\ ragReturn' = [kind |-> "ok", context |-> buildContext(chunks)]
  /\ UNCHANGED <<chunkVars, evalVars, storeVars, serverVars, storing>>

ContextNext == BuildContextCall

SpecContext == ContextInit /\ [][ContextNext]_vars

(***************************************************************************)
(* Concurrent callers of one VectorStore and one EvaluationMetrics         *)
(*                                                                         *)
(* A call runs without interruption from one await to the next. The only   *)
(* await of storeDocument is "await this.generateEmbeddings(chunks)";      *)
(* search and calculateMetrics have none.                                  *)
(***************************************************************************)
MaxCalls == 3
MaxEvaluated == 2

ConcurrentResults ==
  {ProcessedPDF(RevenueText), ProcessedPDF(CostsText), ChunkWithoutContent}

ConcurrentDocumentIds ==
  {[type |-> "string", value |-> Str(<<55>>)],
   [type |-> "string", value |-> Str(<<56>>)]}

ConcurrentResponses == {NoSourcesResponse, GoodResponse}

ConcurrentInit ==
  /\ ChunkIdle
  /\ EvalConstructed
  /\ workload = <<>>
  /\ StoreConstructed
  /\ ServerIdle

\* storeDocument up to its await: the embeddings are computed, nothing is
\* written; a throw of generateEmbeddings ends the call.
StoreDocumentBegin ==
  /\ Len(storeLog) + Len(storing) < MaxCalls
  /\ \E documentId \in ConcurrentDocumentIds,
        processingResult \in ConcurrentResults :
       /\ vsCall' = [op |-> "storeDocument", documentId |-> documentId,
                     processingResult |-> processingResult]
       /\ IF EmbeddingThrows(processingResult.chunks)
          THEN /\ vsReturn' = [kind |-> "throw", error |-> "TypeError"]
               /\ UNCHANGED storing
          ELSE /\ vsReturn' = [kind |-> "pending"]
               /\ storing' =
                    Append(storing,
                           [documentId |-> documentId,
                            processingResult |-> processingResult,
                            embeddings |->
                              generateEmbeddings(processingResult.chunks)])
  /\ UNCHANGED <<chunkVars, evalVars, vectorStore, storeLog, serverVars,
                 ragCall, ragReturn>>

\* storeDocument after its await, for one of the suspended calls: the
\* metadata, every record, and the return.
StoreDocumentResume ==
  /\ \E k \in 1..Len(storing) :
       /\ vectorStore' =
            [documents |->
               MapSet(vectorStore.documents, toString(storing[k].documentId),
                      [id |-> storing[k].documentId,
                       metadata |-> storing[k].processingResult.metadata,
                       chunksCount |-> Len(storing[k].processingResult.chunks)]),
             vectors |->
               StoreChunks(vectorStore.vectors, storing[k].documentId,
                           storing[k].processingResult.chunks,
                           storing[k].embeddings, 1)]
       /\ storeLog' = Append(storeLog,
                             [documentId |-> toString(storing[k].documentId),
                              chunks |-> storing[k].processingResult.chunks])
       /\ vsCall' = [op |-> "storeDocument",
                     documentId |-> storing[k].documentId,
                     processingResult |-> storing[k].processingResult]
       /\ vsReturn' = [kind |-> "ok", success |-> TRUE,
                       chunksStored |->
                         Len(storing[k].processingResult.chunks)]
       /\ storing' = Without(storing, k)
  /\ UNCHANGED <<chunkVars, evalVars, serverVars, ragCall, ragReturn>>

\* search, which runs to its return without suspension.
ConcurrentSearch ==
  /\ Search(simulateEmbedding(toLowerCase(CostsText)), [given |-> FALSE],
            DefaultLimit)
  /\ UNCHANGED <<chunkVars, evalVars, serverVars, pipelineVars>>

\* calculateMetrics, which runs to its return without suspension.
ConcurrentCalculateMetrics ==
  /\ Len(queryHistory) < MaxEvaluated
  /\ \E response \in ConcurrentResponses : CalculateMetrics(response, 500)
  /\ UNCHANGED <<chunkVars, workload, storeVars, serverVars, pipelineVars>>

ConcurrentNext ==
  \/ StoreDocumentBegin
  \/ StoreDocumentResume
  \/ ConcurrentSearch
  \/ ConcurrentCalculateMetrics

SpecConcurrent == ConcurrentInit /\ [][ConcurrentNext]_vars

(***************************************************************************)
(* RAGPipeline.rerank on lists of candidates                               *)
(***************************************************************************)
MaxCandidates == 2

ShowTheTableData ==
  Str(<<83, 104, 111, 119, 32, 116, 104, 101, 32, 116, 97, 98, 108, 101,
        32, 100, 97, 116, 97>>)

TABLE == Str(<<84, 65, 66, 76, 69>>)

RerankQueries == {ShowTheTableData, WhatIsData, TABLE}

\* Contents of 10, 300 and 1510 characters.
CandidateContents ==
  {Str(<<116, 97, 98, 108, 101, 32, 100, 97, 116, 97>>),
   Str(<<100, 97, 116, 97, 32>>) \o <<Run(120, 295)>>,
   Str(<<116, 104, 101, 32, 116, 97, 98, 108, 101, 32>>) \o <<Run(121, 1500)>>}

CandidateChunks ==
  [content : CandidateContents,
   similarity : {0, Scale \div 2},
   documentId : {Str(<<55>>)},
   chunkId : {1},
   metadata : {[sourceType |-> "pdf"]},
   type : {"paragraph", "visual_context"}]

CandidateLists == UNION {[1..k -> CandidateChunks] : k \in 1..MaxCandidates}

\* A pipeline about to rerank the candidates of a query.
RerankInit ==
  /\ ChunkIdle
  /\ EvalConstructed
  /\ workload = <<>>
  /\ StoreConstructed
  /\ ragPipeline = [vectorStore |-> NewVectorStore]
  /\ db = [connected |-> TRUE, documents |-> <<>>]
  /\ uploads = <<>>
  /\ httpRequest = [route |-> "none"]
  /\ httpResponse = [route |-> "none"]
  /\ queryTrace = [kind |-> "none"]
  /\ storing = <<>>
  /\ ragReturn = [kind |-> "pending"]
  /\ \E userQuery \in RerankQueries, chunks \in CandidateLists :
       ragCall = [op |-> "rerank", query |-> userQuery, chunks |-> chunks]

\* ragPipeline.rerank(query, chunks)
RerankCall ==
  /\ ragReturn.kind = "pending"
  /\ ragReturn' = [kind |-> "ok",
                   chunks |-> rerank(ragCall.query, ragCall.chunks)]
  /\ UNCHANGED <<chunkVars, evalVars, storeVars, serverVars, ragCall, storing>>

RerankNext == RerankCall

SpecRerank == RerankInit /\ [][RerankNext]_vars

(***************************************************************************)
(* RAGPipeline.calculateRelevanceScore on selections and answers           *)
(***************************************************************************)
MaxScored == 3

ScoredSelections ==
  UNION {[1..k -> [similarity : Similarities]] : k \in 0..MaxScored}

AnswerConfidences == {0, Scale \div 4, Scale \div 2, Scale}

\* The variables no RAGPipeline method reads or writes, as constructed.
OutsidePipeline ==
  /\ ChunkIdle
  /\ EvalConstructed
  /\ workload = <<>>
  /\ StoreConstructed
  /\ ragPipeline = [vectorStore |-> NewVectorStore]
  /\ db = [connected |-> TRUE, documents |-> <<>>]
  /\ uploads = <<>>
  /\ httpRequest = [route |-> "none"]
  /\ httpResponse = [route |-> "none"]
  /\ queryTrace = [kind |-> "none"]
  /\ storing = <<>>

\* A pipeline about to score the selection of a query and its answer.
RelevanceInit ==
  /\ OutsidePipeline
  /\ ragReturn = [kind |-> "pending"]
  /\ \E chunks \in ScoredSelections, confidence \in AnswerConfidences :
       ragCall = [op |-> "calculateRelevanceScore", chunks |-> chunks,
                  response |-> [confidence |-> confidence]]

\* ragPipeline.calculateRelevanceScore(chunks, response)
RelevanceCall ==
  /\ ragReturn.kind = "pending"
  /\ ragReturn' =
       [kind |-> "ok",
        score |-> calculateRelevanceScore(ragCall.chunks, ragCall.response)]
  /\ UNCHANGED <<chunkVars, evalVars, storeVars, serverVars, ragCall, storing>>

RelevanceNext == RelevanceCall

SpecRelevance == RelevanceInit /\ [][RelevanceNext]_vars

(***************************************************************************)
(* RAGPipeline.classifyIntent on queries                                   *)
(***************************************************************************)
MaxPhrases == 2

\* "what is", "Compare", "steps", "trends", "data", "tablets", "hello",
\* "VS", "Processor"
Phrases ==
  {Str(<<119, 104, 97, 116, 32, 105, 115>>),
   Str(<<67, 111, 109, 112, 97, 114, 101>>),
   Str(<<115, 116, 101, 112, 115>>),
   Str(<<116, 114, 101, 110, 100, 115>>),
   Str(<<100, 97, 116, 97>>),
   Str(<<116, 97, 98, 108, 101, 116, 115>>),
   Str(<<104, 101, 108, 108, 111>>),
   Str(<<86, 83>>),
   Str(<<80, 114, 111, 99, 101, 115, 115, 111, 114>>)}

IntentQueries ==
  {join(ps, <<Space>>) : ps \in UNION {[1..k -> Phrases] : k \in 1..MaxPhrases}}

\* A pipeline about to classify a query.
IntentInit ==
  /\ OutsidePipeline
  /\ ragReturn = [kind |-> "pending"]
  /\ \E userQuery \in IntentQueries :
       ragCall = [op |-> "classifyIntent", query |-> userQuery]

\* ragPipeline.classifyIntent(query)
ClassifyIntentCall ==
  /\ ragReturn.kind = "pending"
  /\ ragReturn' = [kind |-> "ok", intent |-> classifyIntent(ragCall.query)]
  /\ UNCHANGED <<chunkVars, evalVars, storeVars, serverVars, ragCall, storing>>

IntentNext == ClassifyIntentCall

SpecIntent == IntentInit /\ [][IntentNext]_vars

(***************************************************************************)
(* createChunks on texts of several sentences                              *)
(***************************************************************************)
MaxSentences == 7

\* "x", "yy" and a blank sentence " "
SentenceTexts == {<<Ch(120)>>, <<Run(121, 2)>>, <<Space>>}

SentenceSeqs == UNION {[1..k -> SentenceTexts] : k \in 0..MaxSentences}

ImageInit ==
  /\ ServerIdle
  /\ EvalConstructed
  /\ StoreConstructed
  /\ workload = <<>>
  /\ \E ss \in SentenceSeqs : ckText = join(ss, DotSpace)
  /\ ckSourceType = "image"
  /\ ckMetadata \in AuxMetadata
  /\ ckChunks = <<>>
  /\ ckCalled = FALSE

SpecImage == ImageInit /\ [][ChunkNext]_vars

(***************************************************************************)
(* RAGPipeline.query from step 3 on: what searchWithQuery returned is      *)
(* reranked, cut to topK, assembled into the context and answered          *)
(***************************************************************************)
MaxRetrieved == 6

\* Chunks of 4, 1000, 1000 and 4100 characters as searchWithQuery returns
\* them.
RetrievedChunks ==
  {[content |-> Str(<<100, 97, 116, 97>>),
    similarity |-> (9 * Scale) \div 10, documentId |-> Str(<<55>>),
    chunkId |-> 1, metadata |-> [sourceType |-> "pdf"], type |-> "paragraph"],
   [content |-> Str(<<100, 97, 116, 97, 32>>) \o <<Run(120, 995)>>,
    similarity |-> (8 * Scale) \div 10, documentId |-> Str(<<55>>),
    chunkId |-> 2, metadata |-> [sourceType |-> "pdf"], type |-> "paragraph"],
   [content |-> Str(<<116, 104, 101, 32>>) \o <<Run(121, 996)>>,
    similarity |-> (6 * Scale) \div 10, documentId |-> Str(<<56>>),
    chunkId |-> 1, metadata |-> [sourceType |-> "image"],
    type |-> "visual_context"],
   [content |-> <<Run(122, 4100)>>,
    similarity |-> Scale \div 2, documentId |-> Str(<<55>>),
    chunkId |-> 3, metadata |-> [sourceType |-> "pdf"], type |-> "paragraph"]}

\* search sorts by similarity, descending, and the filters keep the order.
RetrievedLists ==
  {chunks \in UNION {[1..k -> RetrievedChunks] : k \in 0..MaxRetrieved} :
     \A i \in 1..(Len(chunks) - 1) :
       chunks[i].similarity >= chunks[i + 1].similarity}

\* A query whose steps 1 and 2 have run.
RetrievedInit ==
  /\ OutsidePipeline
  /\ ragReturn = [kind |-> "pending"]
  /\ \E userQuery \in {WhatIsData, ShowTheTableData},
        chunks \in RetrievedLists :
       ragCall = [op |-> "query", from |-> "Retrieved", query |-> userQuery,
                  relevantChunks |-> chunks]

\* Steps 3 to 5 of query and its return.
QueryFromRetrieved ==
  /\ ragReturn.kind = "pending"
  /\ ragReturn' =
       Returned(WithAnswer(WithContext(WithSelected(WithReranked(
         [stages |-> <<"Received", "QueryProcessed", "Retrieved">>,
          query |-> ragCall.query,
          processedQuery |-> preprocessQuery(ragCall.query),
          embeddedText |-> ragCall.query,
          scanned |->
            [i \in 1..Len(ragCall.relevantChunks) |->
               ragCall.relevantChunks[i].documentId \o Str(<<95>>)
                 \o Decimal(ragCall.relevantChunks[i].chunkId)],
          relevantChunks |-> ragCall.relevantChunks])))))
  /\ UNCHANGED <<chunkVars, evalVars, storeVars, serverVars, ragCall, storing>>

RetrievedNext == QueryFromRetrieved

SpecRetrieved == RetrievedInit /\ [][RetrievedNext]_vars

(***************************************************************************)
(* A RAGPipeline whose vectorStore holds more chunks than one search        *)
(* returns                                                                 *)
(***************************************************************************)
MaxCrowded == 2

\* A PDF of ten paragraphs "data".
TenDataText ==
  Str(<<100, 97, 116, 97, 10, 10, 100, 97, 116, 97, 10, 10, 100, 97, 116,
        97, 10, 10, 100, 97, 116, 97, 10, 10, 100, 97, 116, 97, 10, 10,
        100, 97, 116, 97, 10, 10, 100, 97, 116, 97, 10, 10, 100, 97, 116,
        97, 10, 10, 100, 97, 116, 97, 10, 10, 100, 97, 116, 97>>)

\* "sample text data", "sample table text data"
CrowdedQueries ==
  {Str(<<115, 97, 109, 112, 108, 101, 32, 116, 101, 120, 116, 32, 100, 97,
         116, 97>>),
   Str(<<115, 97, 109, 112, 108, 101, 32, 116, 97, 98, 108, 101, 32, 116, 101,
         120, 116, 32, 100, 97, 116, 97>>)}

CrowdedResults == {ProcessedPDF(TenDataText), ProcessedImage}

CrowdedFilters == {NoFilters, [contentType |-> "visual_context"]}

\* ragPipeline.vectorStore.storeDocument(documentId, processingResult), for
\* a document that is not stored yet.
CrowdedStoreDocument ==
  /\ Len(ragPipeline.vectorStore.documents) < MaxCrowded
  /\ \E documentId \in PipelineDocumentIds,
        processingResult \in CrowdedResults :
       /\ ~MapHas(ragPipeline.vectorStore.documents, toString(documentId))
       /\ ragPipeline' =
            [vectorStore |-> storeDocument(ragPipeline.vectorStore, documentId,
                                           processingResult)]
  /\ UNCHANGED <<chunkVars, evalVars, storeVars, db, uploads, httpRequest,
                 httpResponse, queryTrace, pipelineVars>>

\* ragPipeline.query(query, null, filters)
CrowdedQuery ==
  /\ \E userQuery \in CrowdedQueries, filters \in CrowdedFilters :
       /\ ragCall' = [op |-> "query", query |-> userQuery,
                      documentIds |-> [given |-> FALSE], filters |-> filters]
       /\ ragReturn' = query(ragPipeline.vectorStore, userQuery,
                             [given |-> FALSE], filters)
  /\ UNCHANGED <<chunkVars, evalVars, storeVars, serverVars, storing>>

CrowdedNext == CrowdedStoreDocument \/ CrowdedQuery

SpecCrowded == PipelineInit /\ [][CrowdedNext]_vars

(***************************************************************************)
(* Chunker properties                                                      *)
(***************************************************************************)
ChunkContents == [i \in 1..Len(ckChunks) |-> ckChunks[i].content]

SingleSentence(s) == Len(split(s, DotSpace)) = 1

\* C6: every chunk createChunks(text, 'pdf') emits has content length <= 500
\* unless it is a single sentence that alone is longer than 500 characters.
C6_LengthBound ==
  (ckCalled /\ ckSourceType = "pdf") =>
    \A i \in 1..Len(ckChunks) :
      \/ StrLen(ckChunks[i].content) <= ParagraphLimit
      \/ /\ SingleSentence(ckChunks[i].content)
         /\ StrLen(ckChunks[i].content) > ParagraphLimit

\* The characters of a string that are neither whitespace nor '.'.
Letters(s) == SelectSeq(s, LAMBDA t : ~IsWhitespace(t) /\ t # Dot)

CountDots(s) == Len(SelectSeq(s, LAMBDA t : t = Dot))

\* The '.' characters that do not start a '. ' separator.
RECURSIVE CountInnerDots(_)
CountInnerDots(s) ==
  IF s = <<>> THEN 0
  ELSE (IF Head(s) = Dot /\ ~(Len(s) > 1 /\ s[2] = Space) THEN 1 ELSE 0)
       + CountInnerDots(Tail(s))

\* C7: the chunk contents, concatenated in output order and with separators
\* and whitespace ignored, reproduce the non-blank content of the input: the
\* same letters in the same order, every '.' that is no separator kept and
\* no '.' invented.
C7_NoInformationLoss ==
  ckCalled =>
    /\ Letters(Flatten(ChunkContents)) = Letters(ckText)
    /\ CountDots(Flatten(ChunkContents)) >= CountInnerDots(ckText)
    /\ CountDots(Flatten(ChunkContents)) <= CountDots(ckText)

\* A long paragraph was split and one of its sentences alone exceeds the limit.
C7_Witness ==
  /\ ckCalled
  /\ ckSourceType = "pdf"
  /\ Len(ckChunks) >= 2
  /\ \E i \in 1..Len(ckChunks) : StrLen(ckChunks[i].content) > ParagraphLimit

(***************************************************************************)
(* Evaluation properties                                                   *)
(***************************************************************************)
InUnitRange(x) == x \in 0..Scale

\* C8: for a response with confidence in [0,1] and sources with similarity in
\* [0,1], faithfulness, answerRelevancy, contextRecall and contextPrecision
\* as computed by calculateMetrics each lie in [0,1].
C8_MetricRanges ==
  lastCall.op = "calculateMetrics" =>
    /\ InUnitRange(lastReturn.faithfulness)
    /\ InUnitRange(lastReturn.answerRelevancy)
    /\ InUnitRange(lastReturn.contextRecall)
    /\ InUnitRange(lastReturn.contextPrecision)

\* A response with several sources, full confidence and every source at
\* similarity 1 was scored, and one with a partly grounded answer.
C8_Witness ==
  /\ lastCall.op = "calculateMetrics"
  /\ Len(lastCall.response.sources) >= 2
  /\ lastCall.response.answer.confidence = Scale
  /\ \A i \in 1..Len(lastCall.response.sources) :
       lastCall.response.sources[i].similarity = Scale
  /\ lastReturn.faithfulness > 0

\* C9: the history is append-only. Every calculateMetrics call appends exactly
\* its record at the end, getPerformanceReport leaves the history as it is, no
\* step removes, reorders or changes an earlier record, and the history
\* length always equals totalQueries.
C9_HistoryStep ==
  /\ Len(queryHistory') >= Len(queryHistory)
  /\ SubSeq(queryHistory', 1, Len(queryHistory)) = queryHistory
  /\ lastCall'.op = "calculateMetrics" =>
       queryHistory' = Append(queryHistory, lastReturn')
  /\ lastCall'.op = "getPerformanceReport" => queryHistory' = queryHistory

C9_AppendOnly ==
  /\ [](Len(queryHistory) = performanceMetrics.totalQueries)
  /\ [][C9_HistoryStep]_vars

\* A report was taken after several records, the history unchanged by it.
C9_Witness ==
  /\ lastCall.op = "getPerformanceReport"
  /\ Len(queryHistory) = MaxHistory
  /\ performanceMetrics.totalQueries = MaxHistory

\* The k most recent records of the history.
Window(k) ==
  [i \in 1..k |-> queryHistory[Len(queryHistory) - k + i]]

MinOf(a, b) == IF a <= b THEN a ELSE b

Total(records, field) ==
  LET acc[i \in 0..Len(records)] ==
        IF i = 0 THEN 0 ELSE acc[i - 1] + records[i][field]
  IN acc[Len(records)]

Successes(records) == Cardinality({i \in 1..Len(records) : records[i].success})

\* The overview averages are those of the records w.
OverviewIsOver(report, w) ==
  /\ report.overview.avgLatency = Total(w, "latency") \div Len(w)
  /\ report.overview.avgRelevanceScore = Total(w, "relevanceScore") \div Len(w)
  /\ report.overview.successRate = (Successes(w) * Scale) \div Len(w)

\* The per-metric means and the latency histogram are those of the records w.
DetailIsOver(report, w) ==
  /\ report.detailedMetrics.avgFaithfulness = Total(w, "faithfulness") \div Len(w)
  /\ report.detailedMetrics.avgAnswerRelevancy
       = Total(w, "answerRelevancy") \div Len(w)
  /\ report.detailedMetrics.avgContextRecall
       = Total(w, "contextRecall") \div Len(w)
  /\ report.detailedMetrics.avgContextPrecision
       = Total(w, "contextPrecision") \div Len(w)
  /\ report.latencyDistribution.fast
       = Cardinality({i \in 1..Len(w) : w[i].latency < 1000})
  /\ report.latencyDistribution.slow
       = Cardinality({i \in 1..Len(w) : w[i].latency >= 3000})
  /\ report.latencyDistribution.fast + report.latencyDistribution.medium
       + report.latencyDistribution.slow = Len(w)

\* C10 as stated: the report after N >= 1 recorded queries is computed over
\* the min(N, W) most recent records for one window size W, and the latency
\* histogram counts sum to the size of that same window.
C10_SingleWindow ==
  (lastCall.op = "getPerformanceReport" /\ Len(queryHistory) >= 1) =>
    \E W \in 1..(MaxRecorded + 1) :
      LET w == Window(MinOf(Len(queryHistory), W))
      IN OverviewIsOver(lastReturn, w) /\ DetailIsOver(lastReturn, w)

\* C10 amended: after N >= 1 recorded queries the overview averages are over
\* the min(N, 100) most recent records, the per-metric means and the latency
\* histogram over the min(N, 50) most recent ones, and the histogram counts
\* sum to min(N, 50).
C10_TwoWindows ==
  (lastCall.op = "getPerformanceReport" /\ Len(queryHistory) >= 1) =>
    /\ OverviewIsOver(lastReturn,
                      Window(MinOf(Len(queryHistory), OverviewWindow)))
    /\ DetailIsOver(lastReturn, Window(MinOf(Len(queryHistory), ReportWindow)))
    /\ lastReturn.latencyDistribution.fast
         + lastReturn.latencyDistribution.medium
         + lastReturn.latencyDistribution.slow
         = MinOf(Len(queryHistory), ReportWindow)

\* A report taken after 120 recorded queries of a mixed workload.
C10_Witness ==
  /\ lastCall.op = "getPerformanceReport"
  /\ Len(queryHistory) = 120
  /\ Len(workload) > 1
  /\ lastReturn.latencyDistribution.fast > 0
  /\ lastReturn.latencyDistribution.slow > 0

(***************************************************************************)
(* VectorStore properties                                                  *)
(***************************************************************************)
\* The records the latest search compared the query embedding against.
Compared == Scanned(vectorStore.vectors, vsCall.documentIds)

\* C2: a search whose query embedding differs in length from a stored
\* embedding it is compared against fails with DimensionMismatch and returns
\* no result list.
C2_DimensionMismatch ==
  (/\ vsCall.op = "search"
   /\ \E i \in 1..Len(Compared) :
        Compared[i].value.embedding.length # vsCall.queryEmbedding.length)
  => vsReturn.kind = "DimensionMismatch"

\* storeDocument call k stored the record of this document and chunk id.
StoredBy(k, record) ==
  /\ storeLog[k].documentId = record.documentId
  /\ \E i \in 1..Len(storeLog[k].chunks) :
       storeLog[k].chunks[i].id = record.chunkId

\* When the record was inserted: the first storeDocument call that stored
\* it and its place among the chunks of that call (a later call that stores
\* it again replaces the record, it does not insert it).
Position(record) ==
  LET k == CHOOSE m \in 1..Len(storeLog) :
             /\ StoredBy(m, record)
             /\ \A n \in 1..(m - 1) : ~StoredBy(n, record)
      i == CHOOSE c \in 1..Len(storeLog[k].chunks) :
             /\ storeLog[k].chunks[c].id = record.chunkId
             /\ \A b \in 1..(c - 1) : storeLog[k].chunks[b].id # record.chunkId
  IN <<k, i>>

Earlier(p, q) == p[1] < q[1] \/ (p[1] = q[1] /\ p[2] < q[2])

\* C4: search returns records sorted by non-increasing similarity, among
\* records of equal similarity the one inserted earlier first, at most
\* `limit` of them, all of a document in the filter when a filter is given.
C4_RankingStability ==
  vsCall.op = "search" =>
    LET r == vsReturn.results
    IN /\ \A i, j \in 1..Len(r) :
            i < j =>
              /\ r[i].similarity >= r[j].similarity
              /\ r[i].similarity = r[j].similarity
                   => Earlier(Position(r[i]), Position(r[j]))
       /\ Len(r) <= vsCall.limit
       /\ vsCall.documentIds.given =>
            \A i \in 1..Len(r) : includes(vsCall.documentIds.ids, r[i].documentId)

\* A search returned records of different similarity and a tie among them,
\* the first of the tie stored again after the second was inserted.
C4_Witness ==
  /\ vsCall.op = "search"
  /\ Len(vsReturn.results) >= 3
  /\ \E i, j \in 1..Len(vsReturn.results) :
       /\ i < j
       /\ vsReturn.results[i].similarity = vsReturn.results[j].similarity
       /\ vsReturn.results[i].similarity > 0
       /\ \E k \in 1..Len(storeLog) :
            /\ StoredBy(k, vsReturn.results[i])
            /\ k > Position(vsReturn.results[j])[1]
  /\ \E i, j \in 1..Len(vsReturn.results) :
       vsReturn.results[i].similarity > vsReturn.results[j].similarity

\* The (documentId, chunk id) pairs stored so far.
StoredPairs ==
  UNION {{<<storeLog[k].documentId, storeLog[k].chunks[i].id>> :
            i \in 1..Len(storeLog[k].chunks)} : k \in 1..Len(storeLog)}

\* The latest storeDocument call that stored the pair.
LatestStore(pair) ==
  CHOOSE k \in 1..Len(storeLog) :
    /\ storeLog[k].documentId = pair[1]
    /\ \E i \in 1..Len(storeLog[k].chunks) : storeLog[k].chunks[i].id = pair[2]
    /\ \A m \in (k + 1)..Len(storeLog) :
         ~(/\ storeLog[m].documentId = pair[1]
           /\ \E i \in 1..Len(storeLog[m].chunks) :
                storeLog[m].chunks[i].id = pair[2])

RecordsOf(pair) ==
  {i \in 1..Len(vectorStore.vectors) :
     /\ vectorStore.vectors[i].value.documentId = pair[1]
     /\ vectorStore.vectors[i].value.chunkId = pair[2]}

\* C5: the store holds exactly one record per (documentId, chunk id) pair
\* ever stored, with the content of the latest store of that pair, and no
\* record besides (no two pairs share a record).
C5_Upsert ==
  /\ \A pair \in StoredPairs :
       /\ Cardinality(RecordsOf(pair)) = 1
       /\ \A i \in RecordsOf(pair) :
            \E c \in 1..Len(storeLog[LatestStore(pair)].chunks) :
              /\ storeLog[LatestStore(pair)].chunks[c].id = pair[2]
              /\ storeLog[LatestStore(pair)].chunks[c].content
                   = vectorStore.vectors[i].value.content
  /\ Len(vectorStore.vectors) = Cardinality(StoredPairs)

\* A pair was stored again with another content, beside another document.
C5_Witness ==
  /\ \E k, m \in 1..Len(storeLog) :
       /\ k < m
       /\ storeLog[k].documentId = storeLog[m].documentId
       /\ Len(storeLog[k].chunks) >= 1
       /\ Len(storeLog[m].chunks) >= 1
       /\ storeLog[k].chunks[1].content # storeLog[m].chunks[1].content
  /\ \E k, m \in 1..Len(storeLog) :
       /\ storeLog[k].documentId # storeLog[m].documentId
       /\ Len(storeLog[k].chunks) >= 1
       /\ Len(storeLog[m].chunks) >= 1

\* The chunks of the latest storeDocument call that can be embedded.
Indexable ==
  SelectSeq(vsCall.processingResult.chunks,
            LAMBDA chunk : "content" \in DOMAIN chunk)

\* C12: a chunk that cannot be embedded or indexed does not abort the
\* storage of its document: the call returns a partial success whose
\* chunksStored is the number of chunks that were indexed, and the other
\* chunks are in the index.
C12_PartialSuccess ==
  vsCall.op = "storeDocument" =>
    /\ vsReturn.kind = "ok"
    /\ vsReturn.chunksStored = Len(Indexable)
    /\ \A i \in 1..Len(Indexable) :
         MapHas(vectorStore.vectors,
                ChunkKey(vsCall.documentId, Indexable[i]))

(***************************************************************************)
(* Server properties                                                       *)
(***************************************************************************)
\* The latest request answered is a query that reached retrieval.
QueryAnswered ==
  /\ httpRequest.route = "/api/query"
  /\ queryTrace.kind = "ok"

\* The keys of the records the ingest path stored for a document.
IngestedRecords(documentId) ==
  {vectorStore.vectors[i].key :
     i \in {j \in 1..Len(vectorStore.vectors) :
              vectorStore.vectors[j].value.documentId = documentId}}

\* The stored document has exactly these chunk contents, in this order.
HasChunks(documentId, contents) ==
  LET records == SelectSeq(vectorStore.vectors,
                           LAMBDA e : e.value.documentId = documentId)
  IN [i \in 1..Len(records) |-> records[i].value.content] = contents

RevenueChunk == Str(<<82, 101, 118, 101, 110, 117, 101, 32, 103, 114, 101,
                      119, 32, 49, 48, 37, 46>>)

\* C1: the index the ingest path writes is the index the query path reads:
\* once storeDocument has completed for a document with at least one chunk,
\* a query whose document filter holds its id scans its records; and for
\* the chunks "Revenue grew 10%." and "Costs fell." the query "What happened
\* to revenue?" returns the revenue chunk above the cost chunk with
\* relevanceScore > 0.
C1_IngestedIsSearched ==
  QueryAnswered =>
    \A d \in 1..Len(vectorStore.documents) :
      (/\ vectorStore.documents[d].value.chunksCount >= 1
       /\ httpRequest.documentIds.given
       /\ includes(httpRequest.documentIds.ids, vectorStore.documents[d].key))
      => /\ \A key \in IngestedRecords(vectorStore.documents[d].key) :
              includes(queryTrace.scanned, key)
         /\ (/\ httpRequest.query = WhatHappenedToRevenue
             /\ HasChunks(vectorStore.documents[d].key,
                          <<RevenueChunk, CostsText>>))
            => /\ httpResponse.status = 200
               /\ httpResponse.body.relevanceScore > 0
               /\ \E i, j \in 1..Len(httpResponse.body.sources) :
                    /\ i < j
                    /\ httpResponse.body.sources[i].content = RevenueChunk
                    /\ httpResponse.body.sources[j].content = CostsText

\* No document is eligible for the latest query: nothing has been ingested,
\* or its document filter is empty.
ZeroEligible ==
  \/ /\ Len(db.documents) = 0
     /\ Len(vectorStore.vectors) = 0
     /\ Len(ragPipeline.vectorStore.vectors) = 0
  \/ /\ httpRequest.documentIds.given
     /\ Len(httpRequest.documentIds.ids) = 0

\* C3: a query issued when zero documents are eligible ends in an
\* EmptySelection error: RAGPipeline.query returns no answer object and the
\* route returns no answer text.
C3_EmptySelection ==
  (httpRequest.route = "/api/query" /\ ZeroEligible)
  => /\ queryTrace.kind = "throw"
     /\ httpResponse.status # 200
     /\ "response" \notin DOMAIN httpResponse.body

\* The stages of a query, in order.
AllStages ==
  <<"Received", "QueryProcessed", "Retrieved", "Reranked", "ContextBuilt",
    "Answered", "Scored">>

IsPrefix(a, b) == Len(a) <= Len(b) /\ SubSeq(b, 1, Len(a)) = a

\* The stages of the latest query are the first stages in their order; a
\* query that passed all of them got its answer, one that stopped earlier
\* got an error and no answer.
StagesInOrder ==
  httpRequest.route = "/api/query" =>
    /\ Len(queryTrace.stages) >= 1
    /\ IsPrefix(queryTrace.stages, AllStages)
    /\ IF queryTrace.stages = AllStages
       THEN /\ queryTrace.kind = "ok"
            /\ httpResponse.status = 200
       ELSE /\ queryTrace.kind = "throw"
            /\ httpResponse.status = 500
            /\ "response" \notin DOMAIN httpResponse.body

\* A step that answers a query that failed appends no evaluation record.
FailedQueryStep ==
  (/\ <<httpRequest, httpResponse, queryTrace>>'
        # <<httpRequest, httpResponse, queryTrace>>
   /\ httpRequest'.route = "/api/query"
   /\ queryTrace'.kind = "throw")
  => /\ queryHistory' = queryHistory
     /\ performanceMetrics' = performanceMetrics

\* C11: each query passes through Received, QueryProcessed, Retrieved,
\* Reranked, ContextBuilt, Answered, Scored in that order, each at most
\* once; when a stage fails no later stage runs, no evaluation record is
\* appended and the caller receives an error instead of an answer.
C11_StageOrder == [](StagesInOrder) /\ [][FailedQueryStep]_vars

\* A query failed in preprocessing after an upload had been answered: it
\* stopped at Received, got 500, and the history is empty.
C11_Witness ==
  /\ httpRequest.route = "/api/query"
  /\ queryTrace.kind = "throw"
  /\ queryTrace.stages = <<"Received">>
  /\ httpResponse.status = 500
  /\ Len(vectorStore.documents) = 1
  /\ Len(queryHistory) = 0

\* C13: the text embedded for retrieval is the expanded query, the raw query
\* followed by the synonyms of its keywords, while reranking and generation
\* use the raw query; for a query with a keyword of the synonym table the
\* embedded text differs from the raw query.
C13_ExpandedIsEmbedded ==
  (httpRequest.route = "/api/query" /\ queryTrace.kind = "ok") =>
    /\ queryTrace.embeddedText = queryTrace.processedQuery.processedText
    /\ queryTrace.processedQuery.processedText # httpRequest.query
         => queryTrace.embeddedText # httpRequest.query

\* The MIME types the processor is specified to take.
SpecifiedTypes ==
  {"application/pdf", "image/jpeg", "image/png", "image/tiff", "image/bmp"}

\* No file of another type is being extracted or is in the collection.
OnlySpecifiedTypes ==
  /\ \A i \in 1..Len(uploads) :
       uploads[i].request.file.mimetype \in SpecifiedTypes
  /\ \A i \in 1..Len(db.documents) :
       db.documents[i].mimetype \in SpecifiedTypes

\* The step that answers the upload of a file of another type answers 500
\* and changes neither the collection nor the vector stores nor the uploads
\* in progress.
UnsupportedUploadStep ==
  (/\ <<httpRequest, httpResponse>>' # <<httpRequest, httpResponse>>
   /\ httpRequest'.route = "/api/upload"
   /\ httpRequest'.file.present
   /\ httpRequest'.file.mimetype \notin SpecifiedTypes)
  => /\ httpResponse'.status = 500
     /\ httpResponse'.body = [error |-> "Document processing failed"]
     /\ db' = db
     /\ vectorStore' = vectorStore
     /\ ragPipeline' = ragPipeline
     /\ uploads' = uploads

\* C19: processDocument fails for a MIME type outside application/pdf,
\* image/jpeg, image/png, image/tiff, image/bmp before any extraction runs,
\* and the upload route stores no metadata and no vector record for the file.
C19_UnsupportedType == [](OnlySpecifiedTypes) /\ [][UnsupportedUploadStep]_vars

\* A text/plain upload was answered 500 on a server that holds one stored
\* document: the collection and the store still hold that one document.
C19_Witness ==
  /\ httpRequest.route = "/api/upload"
  /\ httpRequest.file.present
  /\ httpRequest.file.mimetype = "text/plain"
  /\ httpResponse.status = 500
  /\ Len(db.documents) = 1
  /\ Len(vectorStore.documents) = 1
  /\ uploads = <<>>

(***************************************************************************)
(* RAGPipeline properties                                                  *)
(***************************************************************************)
PipelineAnswered == ragCall.op = "query" /\ ragReturn.kind = "ok"

\* The floor the sources of the latest query have to reach: the caller's
\* minSimilarity when the filters hold one, 0.3 otherwise.
RequiredSimilarity ==
  IF "minSimilarity" \in DOMAIN ragCall.filters
  THEN ragCall.filters.minSimilarity
  ELSE (3 * Scale) \div 10

SourcesReachFloor ==
  \A i \in 1..Len(ragReturn.response.sources) :
    ragReturn.response.sources[i].similarity >= RequiredSimilarity

\* C14, as stated: every source has similarity >= 0.3 when the caller gives
\* no minSimilarity and >= the caller's minSimilarity when one is given, and
\* has the caller's contentType whenever the filters hold a contentType.
C14_AnyContentType ==
  PipelineAnswered =>
    /\ SourcesReachFloor
    /\ "contentType" \in DOMAIN ragCall.filters =>
         \A i \in 1..Len(ragReturn.response.sources) :
           ragReturn.response.sources[i].type = ragCall.filters.contentType

\* C14: every source has similarity >= 0.3 when the caller gives no
\* minSimilarity and >= the caller's minSimilarity when one is given (0 and
\* values below 0.3 included), and has the caller's contentType when the
\* filters hold a non-empty one; an empty contentType filters nothing.
C14_FilteredSources ==
  PipelineAnswered =>
    /\ SourcesReachFloor
    /\ ("contentType" \in DOMAIN ragCall.filters
        /\ ragCall.filters.contentType # "") =>
         \A i \in 1..Len(ragReturn.response.sources) :
           ragReturn.response.sources[i].type = ragCall.filters.contentType

\* A query with minSimilarity 0 and contentType paragraph that scanned the
\* seven paragraphs and the image chunk, the best match: its sources are
\* paragraphs of similarity 0.
C14_Witness ==
  /\ PipelineAnswered
  /\ ragCall.filters = [contentType |-> "paragraph", minSimilarity |-> 0]
  /\ ragCall.query = SampleTableText
  /\ Len(ragReturn.scanned) = 8
  /\ Len(ragReturn.response.sources) = topK
  /\ \A i \in 1..topK :
       /\ ragReturn.response.sources[i].similarity = 0
       /\ ragReturn.response.sources[i].type = "paragraph"

\* How often a chunk occurs in a list of chunks.
Occurrences(chunks, chunk) ==
  Cardinality({i \in 1..Len(chunks) : chunks[i] = chunk})

\* The candidates of the latest query with their scores, in search order.
Candidates ==
  [i \in 1..Len(ragReturn.relevantChunks) |->
     Reranked(ragReturn.relevantChunks[i],
              RerankedScore(ragCall.query, ragReturn.relevantChunks[i]))]

\* C15: the sources are in non-increasing order of rerank score, at most
\* topK of them, and they are the highest-scored of the reranked candidates:
\* every candidate is selected or scores no more than each selected one.
C15_TopKByScore ==
  PipelineAnswered =>
    /\ Len(ragReturn.response.sources) <= topK
    /\ Len(ragReturn.response.sources)
         = (IF Len(Candidates) < topK THEN Len(Candidates) ELSE topK)
    /\ ragReturn.response.sources
         = [i \in 1..Len(ragReturn.selectedChunks) |->
              SourceOf(ragReturn.selectedChunks[i])]
    /\ \A i, j \in 1..Len(ragReturn.selectedChunks) :
         i < j => ragReturn.selectedChunks[i].rerankedScore
                    >= ragReturn.selectedChunks[j].rerankedScore
    /\ \A i \in 1..Len(ragReturn.selectedChunks) :
         Occurrences(ragReturn.selectedChunks, ragReturn.selectedChunks[i])
           <= Occurrences(Candidates, ragReturn.selectedChunks[i])
    /\ \A k \in 1..Len(Candidates) :
         \/ Occurrences(ragReturn.selectedChunks, Candidates[k])
              = Occurrences(Candidates, Candidates[k])
         \/ \A i \in 1..Len(ragReturn.selectedChunks) :
              Candidates[k].rerankedScore
                <= ragReturn.selectedChunks[i].rerankedScore

\* Six candidates, five sources of different scores, and the candidate left
\* out is not the last of the search order: the fifth by similarity is no
\* source, the sixth is.
C15_Witness ==
  /\ PipelineAnswered
  /\ Len(ragReturn.relevantChunks) = 6
  /\ Len(ragReturn.response.sources) = topK
  /\ ragReturn.selectedChunks[1].rerankedScore
       > ragReturn.selectedChunks[topK].rerankedScore
  /\ Occurrences(ragReturn.selectedChunks, Candidates[5]) = 0
  /\ Occurrences(ragReturn.selectedChunks, Candidates[6]) = 1

\* The entries of the first k chunks of the latest buildContext call, one
\* after the other.
Entries(k) == Flatten([i \in 1..k |-> ChunkText(ragCall.chunks[i])])

\* C16: the context has at most 4000 characters and is the concatenation,
\* in the order of the list, of whole labelled entries: those of the chunks
\* before the first one whose entry would push the length over the budget;
\* that chunk is left out entirely and nothing of it is in the context.
C16_WholeEntries ==
  ragCall.op = "buildContext" =>
    /\ StrLen(ragReturn.context) <= maxContextLength
    /\ \E k \in 0..Len(ragCall.chunks) :
         /\ ragReturn.context = Entries(k)
         /\ k < Len(ragCall.chunks) =>
              StrLen(Entries(k)) + StrLen(ChunkText(ragCall.chunks[k + 1]))
                > maxContextLength

\* Three chunks of which the first two fit and the third does not: the
\* context is the two entries, 3995 characters.
C16_Witness ==
  /\ ragCall.op = "buildContext"
  /\ Len(ragCall.chunks) = 3
  /\ ragReturn.context = Entries(2)
  /\ StrLen(ragReturn.context) = 3995
  /\ StrLen(ChunkText(ragCall.chunks[3])) = 30

\* C17: when the context is empty the generator has still been called, and
\* the answer is the template of the intent followed by the no-information
\* text, with contextUsed false: nothing of it comes from a document; the
\* relevance score is 0 when no chunk was selected.
C17_NoInformation ==
  (PipelineAnswered /\ ragReturn.response.context = <<>>) =>
    /\ ragReturn.stages = AllStages
    /\ ragReturn.response.answer.text
         = templates(ragReturn.response.queryIntent, ragCall.query)
           \o NoInformationText
    /\ ragReturn.response.answer.contextUsed = FALSE
    /\ Len(ragReturn.selectedChunks) = 0 =>
         ragReturn.response.relevanceScore = 0

\* A query that scanned seven paragraphs and found none above the floor.
C17_Witness ==
  /\ PipelineAnswered
  /\ Len(ragReturn.scanned) = 7
  /\ Len(ragReturn.selectedChunks) = 0
  /\ ragReturn.response.context = <<>>
  /\ ragReturn.response.relevanceScore = 0
  /\ ragReturn.response.answer.contextUsed = FALSE

(***************************************************************************)
(* Concurrency properties                                                  *)
(***************************************************************************)
\* Every record of every storeDocument call that has returned is in the
\* store, and every record and every document entry of the store is one of
\* a call that has returned: a suspended call has written nothing.
StoreIsWhole ==
  /\ \A k \in 1..Len(storeLog) :
       /\ MapHas(vectorStore.documents, storeLog[k].documentId)
       /\ \A c \in 1..Len(storeLog[k].chunks) :
            \E i \in 1..Len(vectorStore.vectors) :
              /\ vectorStore.vectors[i].value.documentId
                   = storeLog[k].documentId
              /\ vectorStore.vectors[i].value.chunkId
                   = storeLog[k].chunks[c].id
  /\ \A i \in 1..Len(vectorStore.vectors) :
       \E k \in 1..Len(storeLog) :
         \E c \in 1..Len(storeLog[k].chunks) :
           /\ vectorStore.vectors[i].value.documentId = storeLog[k].documentId
           /\ vectorStore.vectors[i].value.chunkId = storeLog[k].chunks[c].id
           /\ vectorStore.vectors[i].value.content
                = storeLog[k].chunks[c].content
  /\ \A i \in 1..Len(vectorStore.documents) :
       \E k \in 1..Len(storeLog) :
         vectorStore.documents[i].key = storeLog[k].documentId

\* The aggregates are those of the history as it is.
AggregatesMatchHistory ==
  /\ performanceMetrics.totalQueries = Len(queryHistory)
  /\ Len(queryHistory) > 0 =>
       /\ performanceMetrics.avgLatency
            = Total(queryHistory, "latency") \div Len(queryHistory)
       /\ performanceMetrics.avgRelevanceScore
            = Total(queryHistory, "relevanceScore") \div Len(queryHistory)

\* A search returns the records the store holds when it runs.
SearchSeesStore ==
  (vsCall'.op = "search" /\ <<vsCall, vsReturn>>' # <<vsCall, vsReturn>>) =>
    /\ Len(vsReturn'.results) = Len(vectorStore.vectors)
    /\ \A i \in 1..Len(vectorStore.vectors) :
         \E r \in 1..Len(vsReturn'.results) :
           /\ vsReturn'.results[r].id = vectorStore.vectors[i].value.id
           /\ vsReturn'.results[r].content
                = vectorStore.vectors[i].value.content

\* C18: under every interleaving of the calls at their awaits no search
\* observes a torn write, it sees none or all of the records of each
\* storeDocument call, and each evaluation record is appended together with
\* the update of the aggregates.
C18_NoTornWrite ==
  /\ [](StoreIsWhole /\ AggregatesMatchHistory)
  /\ [][SearchSeesStore]_vars

\* A search ran while a storeDocument call of two chunks was suspended and
\* after another one had returned: it saw the two records of the latter and
\* none of the former; a record had been evaluated.
C18_Witness ==
  /\ vsCall.op = "search"
  /\ Len(storing) >= 1
  /\ Len(storing[1].processingResult.chunks) = 2
  /\ ~MapHas(vectorStore.documents, toString(storing[1].documentId))
  /\ Len(storeLog) >= 1
  /\ Len(vectorStore.vectors) = 2
  /\ Len(vsReturn.results) = 2
  /\ Len(queryHistory) >= 1

(***************************************************************************)
(* Rerank properties                                                       *)
(*                                                                         *)
(* With n query words of which m are words of the content, d the distance  *)
(* of the content length from 300 and s the similarity in thousandths, the *)
(* score times 20000 n is                                                  *)
(*   20 n s + 4000 m + 20000 n (weight * bonus) + n max(0, 1000 - d).      *)
(* The model rounds each term down to thousandths: a score is at most the  *)
(* exact value and less than three thousandths below it.                   *)
(***************************************************************************)
RerankReturned == ragCall.op = "rerank" /\ ragReturn.kind = "ok"

QueryWordCount == Len(splitWords(toLowerCase(ragCall.query)))

MatchCount(chunk) ==
  Cardinality({i \in 1..QueryWordCount :
                 includes(splitWords(toLowerCase(chunk.content)),
                          splitWords(toLowerCase(ragCall.query))[i])})

LengthTerm(chunk) ==
  IF StrLen(chunk.content) >= 300
  THEN (IF StrLen(chunk.content) - 300 < 1000
        THEN 1000 - (StrLen(chunk.content) - 300) ELSE 0)
  ELSE 1000 - (300 - StrLen(chunk.content))

MentionsTable(chunk) ==
  /\ Contains(toLowerCase(ragCall.query), tableWord)
  /\ chunk.type = "visual_context"

\* The exact score times 20000 n, for a bonus term given in thousandths.
ExactScore(chunk, bonusTerm) ==
  20 * QueryWordCount * chunk.similarity
  + 4000 * MatchCount(chunk)
  + 20 * QueryWordCount * (IF MentionsTable(chunk) THEN bonusTerm ELSE 0)
  + QueryWordCount * LengthTerm(chunk)

Agrees(chunk, bonusTerm) ==
  /\ 20 * QueryWordCount * chunk.rerankedScore <= ExactScore(chunk, bonusTerm)
  /\ ExactScore(chunk, bonusTerm) - 20 * QueryWordCount * chunk.rerankedScore
       < 60 * QueryWordCount

\* C20, as stated: the type term is 0.1 * type_bonus with type_bonus = 0.1,
\* that is 0.01, for a visual_context chunk and a query that mentions
\* "table".
C20_WeightedBonus ==
  RerankReturned =>
    \A i \in 1..Len(ragReturn.chunks) : Agrees(ragReturn.chunks[i], 10)

\* C20: score = similarity + 0.2 * (query words in the content / query
\* words) + type term + 0.05 * max(0, 1 - |len(content) - 300| / 1000),
\* where the type term is 0.1 for a visual_context chunk and a query that
\* mentions "table", 0 otherwise.
C20_RerankScore ==
  RerankReturned =>
    /\ Len(ragReturn.chunks) = Len(ragCall.chunks)
    /\ \A i \in 1..Len(ragReturn.chunks) : Agrees(ragReturn.chunks[i], 100)

\* A visual_context chunk of 300 characters and similarity 0.5 was scored
\* for a query of four words that mentions "table", one of them in the
\* content: 0.5 + 0.05 + 0.1 + 0.05.
C20_Witness ==
  /\ RerankReturned
  /\ ragCall.query = ShowTheTableData
  /\ \E i \in 1..Len(ragReturn.chunks) :
       /\ ragReturn.chunks[i].type = "visual_context"
       /\ StrLen(ragReturn.chunks[i].content) = 300
       /\ ragReturn.chunks[i].similarity = Scale \div 2
       /\ MatchCount(ragReturn.chunks[i]) = 1
       /\ ragReturn.chunks[i].rerankedScore = 700

(***************************************************************************)
(* Relevance score properties                                              *)
(*                                                                         *)
(* With n chunks of similarities summing to S and confidence c, all in     *)
(* thousandths, ten n times the score is 6 S + 4 n c. The model rounds the *)
(* mean and each product down: a score is at most the exact value and less *)
(* than three thousandths below it.                                        *)
(***************************************************************************)
RelevanceReturned ==
  ragCall.op = "calculateRelevanceScore" /\ ragReturn.kind = "ok"

SelectionSize == Len(ragCall.chunks)

WeightedSum(confidence) ==
  6 * Sum(Pluck(ragCall.chunks, "similarity")) + 4 * SelectionSize * confidence

IsWeightedScore(score, confidence) ==
  /\ 10 * SelectionSize * score <= WeightedSum(confidence)
  /\ WeightedSum(confidence) < 10 * SelectionSize * (score + 3)

\* C21: calculateRelevanceScore returns 0.6 mean(similarity of the selected
\* chunks) + 0.4 answer.confidence for every non-empty selection and every
\* confidence in [0, 1], confidence 0 included, and 0 for an empty selection.
C21_RelevanceScore ==
  RelevanceReturned =>
    IF SelectionSize = 0 THEN ragReturn.score = 0
    ELSE IsWeightedScore(ragReturn.score, ragCall.response.confidence)

(***************************************************************************)
(* Intent properties                                                       *)
(***************************************************************************)
IntentReturned == ragCall.op = "classifyIntent" /\ ragReturn.kind = "ok"

FixedOrder ==
  <<"factual", "comparison", "procedural", "analytical", "numerical",
    "visual">>

\* The positions in the fixed order of the intents whose pattern matches.
MatchingIntents ==
  {i \in 1..Len(FixedOrder) : IntentMatches(ragCall.query, i)}

\* C22: classifyIntent returns the first intent, in the order factual,
\* comparison, procedural, analytical, numerical, visual, whose pattern
\* matches the raw query, whatever other patterns match; it returns general
\* exactly when no pattern matches.
C22_FirstMatch ==
  IntentReturned =>
    /\ Pluck(intents, "intent") = FixedOrder
    /\ (ragReturn.intent = "general") <=> (MatchingIntents = {})
    /\ \A i \in MatchingIntents :
         (\A j \in MatchingIntents : i <= j)
           => ragReturn.intent = FixedOrder[i]

\* "data what is": the numerical pattern matches first in the text, the
\* factual pattern is first in the order.
C22_Witness ==
  /\ IntentReturned
  /\ ragCall.query =
       Str(<<100, 97, 116, 97, 32, 119, 104, 97, 116, 32, 105, 115>>)
  /\ MatchingIntents = {1, 5}
  /\ ragReturn.intent = "factual"

(***************************************************************************)
(* Chunk id properties                                                     *)
(***************************************************************************)
\* C23: the chunks returned by one createChunks call carry the ids
\* 1, 2, ..., n in output order, with no gap and no repeat, for every text
\* and source kind, also when a long paragraph is split into several chunks.
C23_SequentialIds ==
  ckCalled => Pluck(ckChunks, "id") = [i \in 1..Len(ckChunks) |-> i]

\* One paragraph of more than 500 characters that is split in two chunks.
C23_Witness ==
  /\ ckCalled
  /\ ckSourceType = "pdf"
  /\ Len(SelectSeq(split(ckText, BlankLine), NonBlank)) = 1
  /\ Len(ckChunks) = 2
  /\ ckChunks[1].id = 1
  /\ ckChunks[2].id = 2

(***************************************************************************)
(* Image chunk properties                                                  *)
(***************************************************************************)
\* The non-blank sentences of the text.
NonBlankSentences == SelectSeq(split(ckText, DotSpace), NonBlank)

\* The sentences of the k-th window of three.
WindowOf(sentences, k) ==
  SubSeq(sentences, 3 * (k - 1) + 1, MinOf(3 * k, Len(sentences)))

\* C24: for image-kind text with n non-blank sentences createChunks emits
\* ceil(n/3) chunks, each holding 3 consecutive sentences in input order
\* except the last, which holds the remaining 1 to 3; every chunk carries
\* the supplied tables and charts; n = 0 gives the empty sequence.
C24_ImageWindows ==
  (ckCalled /\ ckSourceType = "image") =>
    /\ Len(ckChunks) = (Len(NonBlankSentences) + 2) \div 3
    /\ \A k \in 1..Len(ckChunks) :
         /\ split(ckChunks[k].content, DotSpace)
              = WindowOf(NonBlankSentences, k)
         /\ Len(WindowOf(NonBlankSentences, k)) \in 1..3
         /\ k < Len(ckChunks) => Len(WindowOf(NonBlankSentences, k)) = 3
         /\ ckChunks[k].metadata.visualElements = ckMetadata.tables
         /\ ckChunks[k].metadata.charts = ckMetadata.charts

\* Seven sentences of which two are blank: five remain, in chunks of three
\* and two, both with the supplied table and chart.
C24_Witness ==
  /\ ckCalled
  /\ ckSourceType = "image"
  /\ Len(split(ckText, DotSpace)) = 7
  /\ Len(NonBlankSentences) = 5
  /\ Len(ckChunks) = 2
  /\ Len(split(ckChunks[1].content, DotSpace)) = 3
  /\ Len(split(ckChunks[2].content, DotSpace)) = 2
  /\ ckMetadata.tables # <<>>
  /\ ckChunks[2].metadata.visualElements = ckMetadata.tables

(***************************************************************************)
(* Faithfulness properties                                                 *)
(***************************************************************************)
\* The answer's words of more than three characters, lowercased.
LongAnswerWords ==
  SelectSeq(splitWords(toLowerCase(lastCall.response.answer.text)),
            LAMBDA word : StrLen(word) > 3)

\* Those of them that are words of the context.
LongWordsInContext ==
  SelectSeq(LongAnswerWords,
            LAMBDA word :
              includes(splitWords(toLowerCase(lastCall.response.context)),
                       word))

\* C25: calculateFaithfulness returns, for a non-empty context, the fraction
\* of the answer's words of length > 3 that occur in the context word set
\* (1 when every such word occurs in the context), and 0 when the context is
\* empty.
C25_Faithfulness ==
  lastCall.op = "calculateMetrics" =>
    IF StrLen(lastCall.response.context) = 0
    THEN lastReturn.faithfulness = 0
    ELSE Len(LongAnswerWords) > 0 =>
           lastReturn.faithfulness
             = Ratio(Len(LongWordsInContext), Len(LongAnswerWords))

(***************************************************************************)
(* Source properties                                                       *)
(***************************************************************************)
AnsweredFromRetrieved ==
  /\ ragCall.op = "query"
  /\ "from" \in DOMAIN ragCall
  /\ ragReturn.kind = "ok"

\* The context entries of the first k reported sources.
SourceEntries(k) ==
  Flatten([i \in 1..k |-> ChunkText(ragReturn.response.sources[i])])

\* C26: every source reported in a query response is a chunk whose content
\* was included in the context given to the answer generator; the reported
\* sources, and the chunks averaged into relevanceScore, are exactly the
\* chunks buildContext accepted within the 4000-character budget.
C26_SourcesInContext ==
  AnsweredFromRetrieved =>
    /\ ragReturn.response.context
         = SourceEntries(Len(ragReturn.response.sources))
    /\ StrLen(SourceEntries(Len(ragReturn.response.sources)))
         <= maxContextLength

(***************************************************************************)
(* Properties of queries on a crowded store                                *)
(***************************************************************************)
\* The stored records the latest query compared with its embedding.
ComparedRecords ==
  LET vectors == ragPipeline.vectorStore.vectors
  IN {i \in 1..Len(vectors) : includes(ragReturn.scanned, vectors[i].key)}

StoredChunk(i) == ragPipeline.vectorStore.vectors[i].value

QuerySimilarity(i) ==
  cosineSimilarity(simulateEmbedding(ragReturn.embeddedText),
                   StoredChunk(i).embedding)

\* Those of them that pass the similarity floor and the contentType filter.
PassingRecords ==
  {i \in ComparedRecords :
     /\ QuerySimilarity(i) >= RequiredSimilarity
     /\ ("contentType" \in DOMAIN ragCall.filters
         /\ ragCall.filters.contentType # "")
          => StoredChunk(i).type = ragCall.filters.contentType}

CombinedScore(i) ==
  RerankedScore(ragCall.query,
                [content |-> StoredChunk(i).content,
                 similarity |-> QuerySimilarity(i),
                 type |-> StoredChunk(i).type])

IsSelected(i) ==
  \E k \in 1..Len(ragReturn.selectedChunks) :
    /\ ragReturn.selectedChunks[k].documentId = StoredChunk(i).documentId
    /\ ragReturn.selectedChunks[k].chunkId = StoredChunk(i).chunkId

\* C27: the sources are the topK highest combined-score chunks among all
\* stored chunks that pass the document filter, the similarity floor and the
\* contentType filter: as many as pass, up to topK, and no passing chunk is
\* left out in favour of one with a lower combined score.
C27_TopKOfStore ==
  PipelineAnswered =>
    /\ Len(ragReturn.response.sources)
         = MinOf(topK, Cardinality(PassingRecords))
    /\ \A i \in PassingRecords :
         \/ IsSelected(i)
         \/ \A k \in 1..Len(ragReturn.selectedChunks) :
              CombinedScore(i) <= ragReturn.selectedChunks[k].rerankedScore

(***************************************************************************)
(* Performance report properties                                           *)
(***************************************************************************)
DetailedMeans ==
  <<lastReturn.detailedMetrics.avgFaithfulness,
    lastReturn.detailedMetrics.avgAnswerRelevancy,
    lastReturn.detailedMetrics.avgContextRecall,
    lastReturn.detailedMetrics.avgContextPrecision>>

\* Whether a JavaScript number is a number other than NaN.
IsDefinedNumber(x) == ToString(x) # ToString(NaN)

\* C28: getPerformanceReport is well-defined for every history size, the
\* empty history included: the per-metric means it returns are numbers, and
\* after any sequence of calculateMetrics calls each lies in [0, 1].
C28_ReportDefined ==
  lastCall.op = "getPerformanceReport" =>
    \A k \in 1..Len(DetailedMeans) :
      /\ IsDefinedNumber(DetailedMeans[k])
      /\ InUnitRange(DetailedMeans[k])

(***************************************************************************)
(* Upload properties                                                       *)
(***************************************************************************)
\* Every chunk of a document of the collection is a record of the index the
\* upload route writes.
AllChunksIndexed(document) ==
  \A i \in 1..Len(document.processingResult.chunks) :
    LET key == ChunkKey(document._id, document.processingResult.chunks[i])
    IN /\ MapHas(vectorStore.vectors, key)
       /\ MapGet(vectorStore.vectors, key).content
            = document.processingResult.chunks[i].content

ProcessedAreIndexed ==
  \A d \in 1..Len(db.documents) :
    db.documents[d].status = "processed" => AllChunksIndexed(db.documents[d])

\* A step in which the upload route sends a response.
UploadAnswered ==
  /\ <<httpRequest, httpResponse>>' # <<httpRequest, httpResponse>>
  /\ httpRequest'.route = "/api/upload"

\* C29: after any upload request, completed or failed, every document of the
\* metadata collection with status 'processed' has all of its chunks in the
\* vector index.
C29_ProcessedIsIndexed == [][UploadAnswered => ProcessedAreIndexed']_vars

(***************************************************************************)
(* Document statistics properties                                          *)
(***************************************************************************)
\* getDocumentStats: the records whose documentId is the document's key.
ActualChunks(documentId) ==
  Cardinality({i \in 1..Len(vectorStore.vectors) :
                 vectorStore.vectors[i].value.documentId = documentId})

\* The chunks of the latest completed storeDocument call for a document.
LatestChunks(documentId) ==
  LET calls == {k \in 1..Len(storeLog) : storeLog[k].documentId = documentId}
  IN storeLog[CHOOSE k \in calls : \A m \in calls : m <= k].chunks

\* C30: after any sequence of storeDocument calls, storing a documentId again
\* with a different number of chunks included, the number of vector records
\* of every stored document equals its chunksCount, and every record of the
\* document is a chunk of its latest ingestion.
C30_CountsAgree ==
  \A d \in 1..Len(vectorStore.documents) :
    LET documentId == vectorStore.documents[d].key
    IN /\ ActualChunks(documentId) = vectorStore.documents[d].value.chunksCount
       /\ \A i \in 1..Len(vectorStore.vectors) :
            vectorStore.vectors[i].value.documentId = documentId =>
              \E c \in 1..Len(LatestChunks(documentId)) :
                /\ LatestChunks(documentId)[c].id
                     = vectorStore.vectors[i].value.chunkId
                /\ LatestChunks(documentId)[c].content
                     = vectorStore.vectors[i].value.content

====
